---- MODULE Spec2Model ----
(***************************************************************************)
(* A model of todo_cli: the Task / TodoList state machine of               *)
(* todo_cli/todo.py, the JSON and CSV storage of todo_cli/storage.py and   *)
(* the command loop (load, one command, save) of todo_cli/cli.py.          *)
(*                                                                         *)
(* Optional values (Python's None or a value) are sequences of length 0    *)
(* or 1: <<>> is None, <<v>> is v.  Seconds are integers.                  *)
(***************************************************************************)
EXTENDS Integers, Sequences, FiniteSets, TLC

\* ------------------------------------------------------------------ bounds

\* add_task is offered while next_id <= MaxId.
MaxId == 2
\* The wall clock reads 0..MaxTime.
MaxTime == 1
\* A timer session is closed only while time_spent stays in -MaxSpent..MaxSpent.
MaxSpent == 1
\* The clock's readings in one day.
TicksPerDay == 2

\* The due dates given to add_task are the clock readings 0..MaxDue.
MaxDue == 3

\* The durations formatted have at most MaxDays days, MaxHours hours and
\* MaxMinutes minutes.
MaxDays == 1
MaxHours == 1
MaxMinutes == 2

VARIABLES
    tasks,      \* TodoList.tasks: the sequence of Task records
    next_id,    \* TodoList.next_id
    now,        \* the reading of time.time()
    op,         \* the operation performed last
    arg,        \* its task_id argument (0 when it has none)
    ret,        \* what it returned
    exc,        \* the exception it raised ("" when it returned)
    was,        \* the task it found by that id, as it was before: <<>> if none
    out,        \* what a command printed: the words that tell its outcome
    filename,   \* the extension of the storage file's path
    file,       \* the storage file: <<>> when absent, else <<its contents>>
    backup      \* the file at <path>.backup, likewise

vars == <<tasks, next_id, now, op, arg, ret, exc, was, out, filename, file, backup>>

\* The storage side of the state, which the TodoList operations never touch.
disk == <<filename, file, backup>>

\* ------------------------------------------------------------------- Task

\* str.strip() on a title given as a sequence of characters.
Whitespace == {" ", "\t", "\n", "\r"}

RECURSIVE lstrip(_)
lstrip(s) ==
    IF s # <<>> /\ Head(s) \in Whitespace THEN lstrip(Tail(s)) ELSE s

RECURSIVE rstrip(_)
rstrip(s) ==
    IF s # <<>> /\ s[Len(s)] \in Whitespace
    THEN rstrip(SubSeq(s, 1, Len(s) - 1))
    ELSE s

strip(s) == rstrip(lstrip(s))

\* The titles the callers pass: empty, blank, plain, padded.
TitleInputs == { <<>>, <<" ">>, <<"a">>, <<" ", "a", "\t">> }

\* The due dates the callers pass: none, or an instant of the clock's range.
DueInputs == { <<>> }

\* Task.__init__ raises ValueError unless this holds (task_id is an int here).
TaskInitOk(task_id, title) ==
    /\ task_id > 0
    /\ title # <<>>
    /\ strip(title) # <<>>

\* Task.__init__: the object built when it does not raise.
TaskInit(task_id, title, done, due_date) ==
    [ title       |-> strip(title),
      done        |-> done,
      due_date    |-> due_date,
      id          |-> task_id,
      time_spent  |-> 0,
      timer_start |-> <<>> ]

\* Task.is_timer_running
is_timer_running(task) == task.timer_start # <<>>

\* Task.start_timer without its test for a running timer.
Task_start_timer_restarts(task, t) ==
    IF task.done
    THEN [ task |-> task, result |-> FALSE ]
    ELSE [ task |-> [task EXCEPT !.timer_start = <<t>>], result |-> TRUE ]

\* Task.start_timer without its test for a task that is done.
Task_start_timer_when_done(task, t) ==
    IF task.timer_start = <<>>
    THEN [ task |-> [task EXCEPT !.timer_start = <<t>>], result |-> TRUE ]
    ELSE [ task |-> task, result |-> FALSE ]

\* Task.start_timer at clock reading t: the task afterwards and the result.
Task_start_timer(task, t) ==
    IF task.done
    THEN [ task |-> task, result |-> FALSE ]
    ELSE IF task.timer_start = <<>>
         THEN [ task |-> [task EXCEPT !.timer_start = <<t>>], result |-> TRUE ]
         ELSE [ task |-> task, result |-> FALSE ]

\* Task.stop_timer that clears the accumulated time when no timer runs.
Task_stop_timer_clears(task, t) ==
    IF task.timer_start # <<>>
    THEN LET elapsed == t - task.timer_start[1]
         IN  [ task   |-> [task EXCEPT !.time_spent = task.time_spent + elapsed,
                                       !.timer_start = <<>>],
               result |-> elapsed ]
    ELSE [ task |-> [task EXCEPT !.time_spent = 0], result |-> 0 ]

\* Task.stop_timer at clock reading t: the task afterwards and the result.
Task_stop_timer(task, t) ==
    IF task.timer_start # <<>>
    THEN LET elapsed == t - task.timer_start[1]
         IN  [ task   |-> [task EXCEPT !.time_spent = task.time_spent + elapsed,
                                       !.timer_start = <<>>],
               result |-> elapsed ]
    ELSE [ task |-> task, result |-> 0 ]

\* ---------------------------------------------------------- serialisation

(* Text is a sequence of tokens (characters, or words such as "true").  A  *)
(* JSON value is [t |-> its type, v |-> its value]; a JSON object is a     *)
(* function from its keys to values; a CSV row is a function from its      *)
(* column names to the text of its cells.                                  *)

JInt(n)   == [t |-> "int", v |-> n]
JFloat(x) == [t |-> "float", v |-> x]
JStr(s)   == [t |-> "str", v |-> s]
JBool(b)  == [t |-> "bool", v |-> b]
JNull     == [t |-> "null"]

DigitChar == <<"0", "1", "2", "3", "4", "5", "6", "7", "8", "9">>

\* str(n) for an int of one digit, with its sign.
IntText(n) ==
    IF n < 0 THEN <<"-", DigitChar[1 - n]>> ELSE <<DigitChar[n + 1]>>

\* str(x) for a float of integral value: "1.0", "-1.0".
FloatText(x) == IntText(x) \o <<".", "0">>

\* Whether c is a digit, and the digit it is.
IsDigit(c) == \E k \in 1..10 : DigitChar[k] = c
DigitVal(c) == (CHOOSE k \in 1..10 : DigitChar[k] = c) - 1

\* datetime.isoformat(): the text of an instant.
isoformat(d) == <<"T", DigitChar[d + 1]>>

\* datetime.fromisoformat(s): <<d>> when s is the text of the instant d,
\* <<>> when it raises ValueError.
fromisoformat(s) ==
    IF Len(s) = 2 /\ s[1] = "T" /\ IsDigit(s[2])
    THEN <<DigitVal(s[2])>>
    ELSE <<>>

\* int(s): <<n>>, or <<>> when it raises ValueError.
ParseInt(s) ==
    IF Len(s) = 1 /\ IsDigit(s[1])
    THEN <<DigitVal(s[1])>>
    ELSE IF Len(s) = 2 /\ s[1] = "-" /\ IsDigit(s[2])
    THEN <<0 - DigitVal(s[2])>>
    ELSE <<>>

\* float(s): <<x>>, or <<>> when it raises ValueError.
ParseFloat(s) ==
    IF Len(s) > 2 /\ s[Len(s) - 1] = "." /\ s[Len(s)] = "0"
    THEN ParseInt(SubSeq(s, 1, Len(s) - 2))
    ELSE ParseInt(s)

\* str.lower(), token by token.
lower(s) ==
    [i \in 1..Len(s) |->
        CASE s[i] \in {"True", "TRUE"} -> "true"
          [] s[i] \in {"False", "FALSE"} -> "false"
          [] s[i] \in {"Today", "TODAY"} -> "today"
          [] s[i] \in {"Now", "NOW"} -> "now"
          [] s[i] \in {"Tomorrow", "TOMORROW"} -> "tomorrow"
          [] s[i] = "A" -> "a"
          [] s[i] = "X" -> "x"
          [] OTHER -> s[i]]

\* str(b) for a bool.
BoolText(b) == IF b THEN <<"True">> ELSE <<"False">>

\* dict.get(key): the value, None when the key is absent.
Get(data, key) == IF key \in DOMAIN data THEN data[key] ELSE JNull

\* Python's truth value of a JSON value.
Truthy(val) ==
    CASE val.t = "null" -> FALSE
      [] val.t = "bool" -> val.v
      [] val.t \in {"int", "float"} -> val.v # 0
      [] val.t = "str" -> val.v # <<>>

\* to_dict that writes no due date.
to_dict_undated(task) ==
    [ id         |-> JInt(task.id),
      title      |-> JStr(task.title),
      done       |-> JBool(task.done),
      due_date   |-> JNull,
      time_spent |-> JFloat(task.time_spent) ]

\* Task.to_dict
to_dict(task) ==
    [ id         |-> JInt(task.id),
      title      |-> JStr(task.title),
      done       |-> JBool(task.done),
      due_date   |-> IF task.due_date # <<>>
                     THEN JStr(isoformat(task.due_date[1]))
                     ELSE JNull,
      time_spent |-> JFloat(task.time_spent) ]

\* What Task.from_dict and the loaders return: a task, or the exception.
Ok(task)  == [ok |-> TRUE, task |-> task]
Raise(e)  == [ok |-> FALSE, error |-> e]

\* Max0 without the floor: the value as found.
Max0_unclamped(x) == x

\* max(0.0, x)
Max0(x) == IF x > 0 THEN x ELSE 0

\* Task_init with 'task_id < 0' for 'task_id <= 0'.
Task_init_from_zero(task_id, title, done, due_date) ==
    IF task_id.t \notin {"int", "bool"}
    THEN Raise("ValueError")
    ELSE IF (IF task_id.t = "bool" THEN FALSE ELSE task_id.v < 0)
    THEN Raise("ValueError")
    ELSE IF ~Truthy(title)
    THEN Raise("ValueError")
    ELSE IF title.t # "str"
    THEN Raise("AttributeError")
    ELSE IF strip(title.v) = <<>>
    THEN Raise("ValueError")
    ELSE Ok(TaskInit(IF task_id.t = "bool" THEN 1 ELSE task_id.v,
                     title.v, done, due_date))

\* Task(task_id, title, done, due_date) on arguments of any type: bool is a
\* subclass of int, so True passes isinstance and equals 1; a falsy title
\* is refused before title.strip() is called, which a number or a bool
\* does not have.
Task_init(task_id, title, done, due_date) ==
    IF task_id.t \notin {"int", "bool"}
    THEN Raise("ValueError")
    ELSE IF (IF task_id.t = "bool" THEN ~task_id.v ELSE task_id.v <= 0)
    THEN Raise("ValueError")
    ELSE IF ~Truthy(title)
    THEN Raise("ValueError")
    ELSE IF title.t # "str"
    THEN Raise("AttributeError")
    ELSE IF strip(title.v) = <<>>
    THEN Raise("ValueError")
    ELSE Ok(TaskInit(IF task_id.t = "bool" THEN 1 ELSE task_id.v,
                     title.v, done, due_date))

\* Task.from_dict: KeyError, ValueError and TypeError leave as ValueError;
\* title.strip() on a number or a bool raises AttributeError, which is not
\* caught there.
from_dict(data) ==
    LET due  == Get(data, "due_date")
        spent == IF "time_spent" \in DOMAIN data
                 THEN data["time_spent"] ELSE JFloat(0)
        done == IF "done" \in DOMAIN data THEN data["done"] ELSE JBool(FALSE)
    IN  IF Truthy(due) /\ (due.t # "str" \/ fromisoformat(due.v) = <<>>)
        THEN Raise("ValueError")
        ELSE IF "id" \notin DOMAIN data \/ "title" \notin DOMAIN data
        THEN Raise("ValueError")
        ELSE IF data["id"].t \notin {"int", "bool"}
        THEN Raise("ValueError")
        ELSE IF (IF data["id"].t = "bool"
                 THEN ~data["id"].v ELSE data["id"].v <= 0)
        THEN Raise("ValueError")
        ELSE IF ~Truthy(data["title"])
        THEN Raise("ValueError")
        ELSE IF data["title"].t # "str"
        THEN Raise("AttributeError")
        ELSE IF strip(data["title"].v) = <<>>
        THEN Raise("ValueError")
        ELSE IF spent.t \notin {"int", "float", "bool"}
        THEN Raise("ValueError")
        ELSE Ok([ TaskInit(IF data["id"].t = "bool" THEN 1 ELSE data["id"].v,
                           data["title"].v,
                           Truthy(done),
                           IF Truthy(due) THEN fromisoformat(due.v) ELSE <<>>)
                  EXCEPT !.time_spent =
                      Max0(IF spent.t = "bool"
                           THEN (IF spent.v THEN 1 ELSE 0) ELSE spent.v) ])

\* ---------------------------------------------------------------- storage

(* The contents of a file: [fmt |-> "json", data |-> the objects of its    *)
(* top-level list], [fmt |-> "csv", rows |-> its rows after the header],   *)
(* or [fmt |-> "empty"], a file of zero bytes.  A CSV row maps the columns *)
(* its header names to the text of its cells.                              *)

JsonFile(data) == [fmt |-> "json", data |-> data]
CsvFile(rows)  == [fmt |-> "csv", rows |-> rows]
EmptyFile      == [fmt |-> "empty"]

\* What a loader returns: the tasks, or the exception.
Loaded(ts) == [ok |-> TRUE, tasks |-> ts]

\* The first position of rs whose record does not decode, 0 if all do.
FirstBad(rs) ==
    IF \E i \in 1..Len(rs) : ~rs[i].ok
    THEN CHOOSE i \in 1..Len(rs) :
            /\ ~rs[i].ok
            /\ \A j \in 1..(i - 1) : rs[j].ok
    ELSE 0

\* Collect that keeps the tasks of the records that decode.
Collect_partial(rs) ==
    LET good == SelectSeq(rs, LAMBDA x : x.ok)
    IN  Loaded([i \in 1..Len(good) |-> good[i].task])

\* A list comprehension or loop over decoded records: the first exception
\* leaves the loader; otherwise the tasks in the order of the records.
Collect(rs) ==
    IF FirstBad(rs) # 0
    THEN Raise(rs[FirstBad(rs)].error)
    ELSE Loaded([i \in 1..Len(rs) |-> rs[i].task])

\* _load_json_tasks: json.load, then Task.from_dict on every object.
load_json_tasks(content) ==
    IF content.fmt # "json"
    THEN Raise("JSONDecodeError")
    ELSE Collect([i \in 1..Len(content.data) |-> from_dict(content.data[i])])

\* One row of _load_csv_tasks.  A cell is text, so a column the header
\* lacks is the only way dict.get() gives its default.
csv_row_task(row) ==
    LET due == IF "due_date" \in DOMAIN row THEN row["due_date"] ELSE <<>>
    IN  IF due # <<>> /\ fromisoformat(due) = <<>>
        THEN Raise("ValueError")
        ELSE IF "id" \notin DOMAIN row
        THEN Raise("KeyError")
        ELSE IF ParseInt(row["id"]) = <<>>
        THEN Raise("ValueError")
        ELSE IF "title" \notin DOMAIN row
        THEN Raise("KeyError")
        ELSE IF ~TaskInitOk(ParseInt(row["id"])[1], row["title"])
        THEN Raise("ValueError")
        ELSE IF "time_spent" \in DOMAIN row /\ ParseFloat(row["time_spent"]) = <<>>
        THEN Raise("ValueError")
        ELSE Ok([ TaskInit(ParseInt(row["id"])[1],
                           row["title"],
                           "done" \in DOMAIN row /\ lower(row["done"]) = <<"true">>,
                           IF due # <<>> THEN fromisoformat(due) ELSE <<>>)
                  EXCEPT !.time_spent =
                      IF "time_spent" \in DOMAIN row
                      THEN ParseFloat(row["time_spent"])[1]
                      ELSE 0 ])

\* What open(filename, 'r') gives the reader for the text of a cell: the
\* file is opened without newline='', so "\r\n" and "\r" arrive as "\n",
\* inside a quoted cell too.
RECURSIVE universal_newlines(_)
universal_newlines(s) ==
    IF s = <<>> THEN <<>>
    ELSE IF Head(s) = "\r" /\ Len(s) > 1 /\ s[2] = "\n"
    THEN <<"\n">> \o universal_newlines(Tail(Tail(s)))
    ELSE IF Head(s) = "\r"
    THEN <<"\n">> \o universal_newlines(Tail(s))
    ELSE <<Head(s)>> \o universal_newlines(Tail(s))

\* A row as csv.DictReader reads it from that file.
ReadRow(row) == [c \in DOMAIN row |-> universal_newlines(row[c])]

\* _load_csv_tasks: csv.DictReader over the file.  A file of zero bytes has
\* no header and no rows; the text json.dump writes has the header "[" or
\* "[]", so each of its further lines is a row without an id column.
load_csv_tasks(content) ==
    CASE content.fmt = "empty" -> Loaded(<<>>)
      [] content.fmt = "json" ->
            IF content.data = <<>> THEN Loaded(<<>>) ELSE Raise("KeyError")
      [] content.fmt = "csv" ->
            Collect([i \in 1..Len(content.rows) |->
                        csv_row_task(ReadRow(content.rows[i]))])

\* load_tasks(filename): every exception leaves as StorageError.
load_tasks(name, f) ==
    IF f = <<>>
    THEN Loaded(<<>>)
    ELSE LET r == CASE name = "json" -> load_json_tasks(f[1])
                    [] name = "csv"  -> load_csv_tasks(f[1])
                    [] OTHER         -> Raise("StorageError")
         IN  IF r.ok THEN r ELSE Raise("StorageError")

\* _save_json_tasks: the file written.
save_json_tasks(ts) == JsonFile([i \in 1..Len(ts) |-> to_dict(ts[i])])

\* _save_csv_tasks: the file written.
save_csv_tasks(ts) ==
    CsvFile([i \in 1..Len(ts) |->
        [ id         |-> IntText(ts[i].id),
          title      |-> ts[i].title,
          done       |-> lower(BoolText(ts[i].done)),
          due_date   |-> IF ts[i].due_date # <<>>
                         THEN isoformat(ts[i].due_date[1])
                         ELSE <<>>,
          time_spent |-> FloatText(ts[i].time_spent) ]])

\* save_tasks that writes over the file and leaves the backup alone.
save_tasks_overwrites(ts, name, f, b) ==
    CASE name = "json" ->
            [file |-> <<save_json_tasks(ts)>>, backup |-> b, ok |-> TRUE]
      [] name = "csv" ->
            [file |-> <<save_csv_tasks(ts)>>, backup |-> b, ok |-> TRUE]
      [] OTHER ->
            [file |-> f, backup |-> b, ok |-> FALSE]

\* save_tasks(tasks, filename): the file and the backup afterwards, and
\* whether StorageError was raised.  An existing file is first renamed to
\* <path>.backup.
save_tasks(ts, name, f, b) ==
    LET moved == IF f # <<>> THEN <<>> ELSE f
        kept  == IF f # <<>> THEN f ELSE b
    IN  CASE name = "json" ->
                [file |-> <<save_json_tasks(ts)>>, backup |-> kept, ok |-> TRUE]
          [] name = "csv" ->
                [file |-> <<save_csv_tasks(ts)>>, backup |-> kept, ok |-> TRUE]
          [] OTHER ->
                [file |-> moved, backup |-> kept, ok |-> FALSE]

\* The steps of save_tasks at which the operating system can refuse.
FailurePoints == {"replace", "open", "write"}

\* save_tasks(tasks, filename) when the operating system refuses at the
\* step `at`: os.replace raises and nothing has moved; or the file has been
\* renamed and open() raises, so there is no file at the path; or the
\* writer raises after k rows, and the path holds what had been written (a
\* json text that is cut short is zero bytes here).  Every exception leaves
\* as StorageError.
save_tasks_error(ts, name, f, b, at, k) ==
    LET kept == IF f # <<>> THEN f ELSE b
    IN  CASE at = "replace" ->
                [file |-> f, backup |-> b, ok |-> FALSE]
          [] at = "open" ->
                [file |-> <<>>, backup |-> kept, ok |-> FALSE]
          [] at = "write" ->
                [file |-> IF name = "csv" /\ k > 0
                          THEN <<CsvFile(SubSeq(save_csv_tasks(ts).rows, 1, k))>>
                          ELSE <<EmptyFile>>,
                 backup |-> kept, ok |-> FALSE]

\* --------------------------------------------------------------- TodoList

\* TodoList.find_task: the position of the first task with this id, 0 if none.
find_task(ts, task_id) ==
    IF \E i \in 1..Len(ts) : ts[i].id = task_id
    THEN CHOOSE i \in 1..Len(ts) :
            /\ ts[i].id = task_id
            /\ \A j \in 1..(i - 1) : ts[j].id # task_id
    ELSE 0

\* list.remove(task): the sequence without its element at position i.
RemoveAt(ts, i) == SubSeq(ts, 1, i - 1) \o SubSeq(ts, i + 1, Len(ts))

\* TodoList.add_task numbering the new task by the length of the list.
TodoList_add_task_by_length(ts, nid, title, due_date) ==
    IF TaskInitOk(nid, title)
    THEN LET task == TaskInit(Len(ts) + 1, title, FALSE, due_date)
         IN  [ ok      |-> TRUE,
               tasks   |-> Append(ts, task),
               next_id |-> nid + 1,
               result  |-> <<task>> ]
    ELSE [ ok |-> FALSE, tasks |-> ts, next_id |-> nid, result |-> <<>> ]

\* TodoList.add_task that counts an id for a task it could not build.
TodoList_add_task_consumes(ts, nid, title, due_date) ==
    IF TaskInitOk(nid, title)
    THEN LET task == TaskInit(nid, title, FALSE, due_date)
         IN  [ ok      |-> TRUE,
               tasks   |-> Append(ts, task),
               next_id |-> nid + 1,
               result  |-> <<task>> ]
    ELSE [ ok |-> FALSE, tasks |-> ts, next_id |-> nid + 1, result |-> <<>> ]

\* TodoList.add_task on a list ts with counter nid: the list and the counter
\* afterwards and the task returned, or the ValueError of Task.__init__.
TodoList_add_task(ts, nid, title, due_date) ==
    IF TaskInitOk(nid, title)
    THEN LET task == TaskInit(nid, title, FALSE, due_date)
         IN  [ ok      |-> TRUE,
               tasks   |-> Append(ts, task),
               next_id |-> nid + 1,
               result  |-> <<task>> ]
    ELSE [ ok |-> FALSE, tasks |-> ts, next_id |-> nid, result |-> <<>> ]

\* mark_done that leaves a running timer running.
Task_mark_done_keeps_timer(task, t) == [task EXCEPT !.done = TRUE]

\* mark_done that drops the running session instead of adding it.
Task_mark_done_drops_session(task, t) ==
    [task EXCEPT !.done = TRUE, !.timer_start = <<>>]

\* The body of mark_done for the task found: done is set, then a running
\* timer is stopped.
Task_mark_done(task, t) ==
    LET marked == [task EXCEPT !.done = TRUE]
    IN  IF is_timer_running(marked)
        THEN Task_stop_timer(marked, t).task
        ELSE marked

\* TodoList.mark_done without its test for a task already done.
TodoList_mark_done_again(ts, task_id, t) ==
    LET i == find_task(ts, task_id)
    IN  IF i # 0
        THEN LET task == Task_mark_done(ts[i], t)
             IN  [ tasks |-> [ts EXCEPT ![i] = task], result |-> <<task>> ]
        ELSE [ tasks |-> ts, result |-> <<>> ]

\* TodoList.mark_done at clock reading t: the list afterwards and the
\* result (<<>> is None).
TodoList_mark_done(ts, task_id, t) ==
    LET i == find_task(ts, task_id)
    IN  IF i # 0 /\ ~ts[i].done
        THEN LET task == Task_mark_done(ts[i], t)
             IN  [ tasks |-> [ts EXCEPT ![i] = task], result |-> <<task>> ]
        ELSE [ tasks |-> ts, result |-> <<>> ]

\* TodoList_delete_task that removes the first task of the list, whichever
\* task was found.
TodoList_delete_task_first(ts, task_id) ==
    LET i == find_task(ts, task_id)
    IN  IF i # 0
        THEN [ tasks |-> RemoveAt(ts, 1), result |-> <<ts[i]>> ]
        ELSE [ tasks |-> ts, result |-> <<>> ]

\* TodoList.delete_task
TodoList_delete_task(ts, task_id) ==
    LET i == find_task(ts, task_id)
    IN  IF i # 0
        THEN [ tasks |-> RemoveAt(ts, i), result |-> <<ts[i]>> ]
        ELSE [ tasks |-> ts, result |-> <<>> ]

\* TodoList.start_timer
TodoList_start_timer(ts, task_id, t) ==
    LET i == find_task(ts, task_id)
    IN  IF i # 0
        THEN LET r == Task_start_timer(ts[i], t)
             IN  [ tasks |-> [ts EXCEPT ![i] = r.task], result |-> r.result ]
        ELSE [ tasks |-> ts, result |-> FALSE ]

\* TodoList.stop_timer that stops the timer of every task of the list.
TodoList_stop_timer_every(ts, task_id, t) ==
    LET i == find_task(ts, task_id)
    IN  IF i # 0
        THEN [ tasks  |-> [j \in 1..Len(ts) |-> Task_stop_timer(ts[j], t).task],
               result |-> Task_stop_timer(ts[i], t).result ]
        ELSE [ tasks |-> ts, result |-> 0 ]

\* TodoList.stop_timer
TodoList_stop_timer(ts, task_id, t) ==
    LET i == find_task(ts, task_id)
    IN  IF i # 0
        THEN LET r == Task_stop_timer(ts[i], t)
             IN  [ tasks |-> [ts EXCEPT ![i] = r.task], result |-> r.result ]
        ELSE [ tasks |-> ts, result |-> 0 ]

\* The task with this id before an operation, None if there is none.
Found(ts, task_id) ==
    IF find_task(ts, task_id) # 0 THEN <<ts[find_task(ts, task_id)]>> ELSE <<>>

\* The bound on time_spent under which the model closes a timer session.
InRange(ts) ==
    \A i \in 1..Len(ts) : ts[i].time_spent \in (-MaxSpent)..MaxSpent

\* The task ids the callers pass: ids in use, ids not in use.
IdArgs == 1..MaxId

\* ---------------------------------------------------------------- queries

\* The constants for time calculations.
SECONDS_PER_MINUTE == 60
SECONDS_PER_HOUR == 3600
SECONDS_PER_DAY == 86400

\* is_overdue that counts the due instant itself as overdue.
is_overdue_at_due(task, t) ==
    IF task.done \/ task.due_date = <<>>
    THEN FALSE
    ELSE t >= task.due_date[1]

\* Task.is_overdue at clock reading t
is_overdue(task, t) ==
    IF task.done \/ task.due_date = <<>>
    THEN FALSE
    ELSE t > task.due_date[1]

\* list_tasks that ignores show_all.
list_tasks_everything(ts, show_all) == ts

\* remaining_time_seconds that does not look at done.
remaining_time_seconds_of_done(task, t) ==
    IF task.due_date = <<>>
    THEN <<>>
    ELSE <<task.due_date[1] - t>>

\* Task.remaining_time_seconds at clock reading t: <<>> is None.
remaining_time_seconds(task, t) ==
    IF task.due_date = <<>> \/ task.done
    THEN <<>>
    ELSE <<task.due_date[1] - t>>

\* One component of a formatted duration, as in f"{days}d".
Component(n, unit) == [n |-> n, unit |-> unit]

\* _format_duration that keeps the minutes beside the days.
format_duration_with_minutes(seconds) ==
    IF seconds < SECONDS_PER_MINUTE
    THEN <<Component(seconds, "s")>>
    ELSE LET days      == seconds \div SECONDS_PER_DAY
             remainder == seconds % SECONDS_PER_DAY
             hours     == remainder \div SECONDS_PER_HOUR
             minutes   == (remainder % SECONDS_PER_HOUR) \div SECONDS_PER_MINUTE
             secs      == (remainder % SECONDS_PER_HOUR) % SECONDS_PER_MINUTE
             parts     == (IF days > 0 THEN <<Component(days, "d")>> ELSE <<>>)
                          \o (IF hours > 0 THEN <<Component(hours, "h")>> ELSE <<>>)
                          \o (IF minutes > 0
                              THEN <<Component(minutes, "m")>> ELSE <<>>)
         IN  IF parts = <<>> \/ (Len(parts) = 1 /\ parts[1].unit = "m")
             THEN parts \o <<Component(secs, "s")>>
             ELSE parts

\* Task._format_duration: the components of the text, which " ".join
\* separates by spaces.  Seconds are integers, so int(seconds) is seconds.
format_duration(seconds) ==
    IF seconds < SECONDS_PER_MINUTE
    THEN <<Component(seconds, "s")>>
    ELSE LET days      == seconds \div SECONDS_PER_DAY
             remainder == seconds % SECONDS_PER_DAY
             hours     == remainder \div SECONDS_PER_HOUR
             minutes   == (remainder % SECONDS_PER_HOUR) \div SECONDS_PER_MINUTE
             secs      == (remainder % SECONDS_PER_HOUR) % SECONDS_PER_MINUTE
             parts     == (IF days > 0 THEN <<Component(days, "d")>> ELSE <<>>)
                          \o (IF hours > 0 THEN <<Component(hours, "h")>> ELSE <<>>)
                          \o (IF minutes > 0 /\ days = 0
                              THEN <<Component(minutes, "m")>> ELSE <<>>)
         IN  IF parts = <<>> \/ (Len(parts) = 1 /\ parts[1].unit = "m")
             THEN parts \o <<Component(secs, "s")>>
             ELSE parts

\* Task.format_time_spent
format_time_spent(task) == format_duration(task.time_spent)

\* The text of format_remaining_time: its words and the duration in it.
Phrase(text, duration) == [text |-> text, duration |-> duration]

\* format_remaining_time for which a whole minute is still very soon.
format_remaining_time_late(task, t) ==
    LET remaining == remaining_time_seconds(task, t)
    IN  IF remaining = <<>>
        THEN Phrase("No deadline", <<>>)
        ELSE IF remaining[1] < 0
        THEN Phrase("Overdue by", format_duration(0 - remaining[1]))
        ELSE IF remaining[1] <= SECONDS_PER_MINUTE
        THEN Phrase("Due very soon", <<>>)
        ELSE Phrase("remaining", format_duration(remaining[1]))

\* Task.format_remaining_time at clock reading t
format_remaining_time(task, t) ==
    LET remaining == remaining_time_seconds(task, t)
    IN  IF remaining = <<>>
        THEN Phrase("No deadline", <<>>)
        ELSE IF remaining[1] < 0
        THEN Phrase("Overdue by", format_duration(0 - remaining[1]))
        ELSE IF remaining[1] < SECONDS_PER_MINUTE
        THEN Phrase("Due very soon", <<>>)
        ELSE Phrase("remaining", format_duration(remaining[1]))

\* TodoList.list_tasks
list_tasks(ts, show_all) ==
    IF show_all
    THEN ts
    ELSE LET Keep(task) == ~task.done IN SelectSeq(ts, Keep)

\* get_upcoming_tasks whose window ends before the cutoff instant.
get_upcoming_tasks_open(ts, days, t) ==
    IF days <= 0
    THEN <<>>
    ELSE LET cutoff == t + days * TicksPerDay
             Keep(task) == /\ ~task.done
                           /\ task.due_date # <<>>
                           /\ t <= task.due_date[1]
                           /\ task.due_date[1] < cutoff
         IN  SelectSeq(ts, Keep)

\* get_upcoming_tasks whose window has no beginning.
get_upcoming_tasks_and_past(ts, days, t) ==
    IF days <= 0
    THEN <<>>
    ELSE LET cutoff == t + days * TicksPerDay
             Keep(task) == /\ ~task.done
                           /\ task.due_date # <<>>
                           /\ task.due_date[1] <= cutoff
         IN  SelectSeq(ts, Keep)

\* TodoList.get_upcoming_tasks at clock reading t
get_upcoming_tasks(ts, days, t) ==
    IF days <= 0
    THEN <<>>
    ELSE LET cutoff == t + days * TicksPerDay
             Keep(task) == /\ ~task.done
                           /\ task.due_date # <<>>
                           /\ t <= task.due_date[1]
                           /\ task.due_date[1] <= cutoff
         IN  SelectSeq(ts, Keep)

\* TodoList.get_overdue_tasks at clock reading t
get_overdue_tasks(ts, t) ==
    LET Keep(task) == is_overdue(task, t) IN SelectSeq(ts, Keep)

\* TodoList.get_total_time_spent
\* get_total_time_spent over the tasks that are not done.
RECURSIVE get_total_time_spent_open(_)
get_total_time_spent_open(ts) ==
    IF ts = <<>> THEN 0
    ELSE (IF Head(ts).done THEN 0 ELSE Head(ts).time_spent)
         + get_total_time_spent_open(Tail(ts))

RECURSIVE get_total_time_spent(_)
get_total_time_spent(ts) ==
    IF ts = <<>> THEN 0 ELSE Head(ts).time_spent + get_total_time_spent(Tail(ts))

\* -------------------------------------------------------------------- cli

\* The formats parse_due_date tries, in its order: each a sequence of
\* conversion specifiers and of the characters between them.  A date text
\* is the sequence of its characters.
Formats ==
    << <<"%Y", "-", "%m", "-", "%d">>,
       <<"%Y", "-", "%m", "-", "%d", " ", "%H", ":", "%M">>,
       <<"%Y", "-", "%m", "-", "%d", " ", "%H", ":", "%M", ":", "%S">>,
       <<"%m", "/", "%d", "/", "%Y">>,
       <<"%m", "/", "%d", "/", "%Y", " ", "%H", ":", "%M">>,
       <<"%d", ".", "%m", ".", "%Y">>,
       <<"%d", ".", "%m", ".", "%Y", " ", "%H", ":", "%M">> >>

Specifiers == {"%Y", "%m", "%d", "%H", "%M", "%S"}

\* The digits a text starts with.
RECURSIVE DigitRun(_)
DigitRun(s) ==
    IF s # <<>> /\ IsDigit(Head(s))
    THEN <<Head(s)>> \o DigitRun(Tail(s))
    ELSE <<>>

\* int(ds) for a run of digits.
RECURSIVE Number(_)
Number(ds) ==
    IF ds = <<>> THEN 0
    ELSE 10 * Number(SubSeq(ds, 1, Len(ds) - 1)) + DigitVal(ds[Len(ds)])

\* Whether a run of digits reads as the field of a specifier: strptime wants
\* four digits for %Y and takes one or two for the others, within the
\* field's range (it reads a second up to 61).
FieldMatches(specifier, ds) ==
    CASE specifier = "%Y" -> Len(ds) = 4
      [] specifier = "%m" -> Len(ds) \in 1..2 /\ Number(ds) \in 1..12
      [] specifier = "%d" -> Len(ds) \in 1..2 /\ Number(ds) \in 1..31
      [] specifier = "%H" -> Len(ds) \in 1..2 /\ Number(ds) \in 0..23
      [] specifier = "%M" -> Len(ds) \in 1..2 /\ Number(ds) \in 0..59
      [] specifier = "%S" -> Len(ds) \in 1..2 /\ Number(ds) \in 0..61

\* The fields strptime reads from a text along the rest of a format, added
\* to those read so far, or <<>> when the text does not match: a blank of
\* the format stands for any run of blanks, a field takes the whole run of
\* digits, %d also takes a blank and one digit, and no character is left.
RECURSIVE Scan(_, _, _)
Scan(s, fmt, fields) ==
    IF fmt = <<>>
    THEN (IF s = <<>> THEN <<fields>> ELSE <<>>)
    ELSE IF Head(fmt) = " "
    THEN (IF s # <<>> /\ Head(s) \in Whitespace
          THEN Scan(lstrip(s), Tail(fmt), fields)
          ELSE <<>>)
    ELSE IF Head(fmt) \in Specifiers
    THEN LET padded == Head(fmt) = "%d" /\ s # <<>> /\ Head(s) = " "
             text   == IF padded THEN Tail(s) ELSE s
             ds     == DigitRun(text)
         IN  IF FieldMatches(Head(fmt), ds) /\ (padded => Len(ds) = 1)
             THEN Scan(SubSeq(text, Len(ds) + 1, Len(text)), Tail(fmt),
                       [fields EXCEPT ![Head(fmt)] = Number(ds)])
             ELSE <<>>
    ELSE IF s # <<>> /\ Head(s) = Head(fmt)
    THEN Scan(Tail(s), Tail(fmt), fields)
    ELSE <<>>

\* calendar: leap years and the days of a month.
IsLeap(y) == y % 4 = 0 /\ (y % 100 # 0 \/ y % 400 = 0)

DaysInMonth(y, m) ==
    IF m = 2 THEN (IF IsLeap(y) THEN 29 ELSE 28)
    ELSE IF m \in {4, 6, 9, 11} THEN 30 ELSE 31

\* datetime.strptime(s, fmt): <<the datetime>>, or <<>> when it raises
\* ValueError, for a text that does not match or a date that does not exist.
strptime(s, fmt) ==
    LET r == Scan(s, fmt, [x \in Specifiers |-> IF x \in {"%m", "%d"} THEN 1 ELSE 0])
    IN  IF Len(r) = 0
        THEN <<>>
        ELSE IF \/ r[1]["%Y"] < 1
                \/ r[1]["%d"] > DaysInMonth(r[1]["%Y"], r[1]["%m"])
                \/ r[1]["%S"] > 59
        THEN <<>>
        ELSE << [ year |-> r[1]["%Y"], month |-> r[1]["%m"], day |-> r[1]["%d"],
                  hour |-> r[1]["%H"], minute |-> r[1]["%M"],
                  second |-> r[1]["%S"] ] >>

\* date.toordinal(): the days from 0001-01-01 to a date, that day counted.
RECURSIVE DaysBeforeMonth(_, _)
DaysBeforeMonth(y, m) ==
    IF m = 1 THEN 0 ELSE DaysBeforeMonth(y, m - 1) + DaysInMonth(y, m - 1)

toordinal(dt) ==
    (dt.year - 1) * 365 + (dt.year - 1) \div 4 - (dt.year - 1) \div 100
    + (dt.year - 1) \div 400 + DaysBeforeMonth(dt.year, dt.month) + dt.day

\* The date and time at which the clock reads 0.
Epoch ==
    [ year |-> 2024, month |-> 1, day |-> 1, hour |-> 0, minute |-> 0,
      second |-> 0 ]

\* The reading of the clock at a datetime: the clock ticks TicksPerDay times
\* a day.
Reading(dt) ==
    (toordinal(dt) - toordinal(Epoch)) * TicksPerDay
    + (((dt.hour * 60 + dt.minute) * 60 + dt.second) * TicksPerDay)
          \div SECONDS_PER_DAY

\* datetime.replace(hour=23, minute=59, second=59): the last reading of the
\* day of t.
EndOfDay(t) == (t \div TicksPerDay) * TicksPerDay + (TicksPerDay - 1)

\* parse_due_date at clock reading t: the instant, or the ValueError with
\* the text its message shows.
parse_due_date(text, t) ==
    LET date_str == strip(lower(text))
        hits == { k \in 1..Len(Formats) : strptime(date_str, Formats[k]) # <<>> }
    IN  IF date_str \in { <<"today">>, <<"now">> }
        THEN [ok |-> TRUE, value |-> EndOfDay(t)]
        ELSE IF date_str = <<"tomorrow">>
        THEN [ok |-> TRUE, value |-> EndOfDay(t + TicksPerDay)]
        ELSE IF hits # {}
        THEN [ok |-> TRUE,
              value |-> Reading(strptime(date_str,
                                 Formats[CHOOSE k \in hits : \A h \in hits : k <= h])[1])]
        ELSE [ok |-> FALSE, message |-> <<"Unrecognized date format:">> \o date_str]

\* The number of tasks in place of their largest id.
MaxIdOf_count(ts) == Len(ts)

\* max(task.id for task in tasks)
RECURSIVE MaxIdOf(_)
MaxIdOf(ts) ==
    IF Len(ts) = 1
    THEN ts[1].id
    ELSE LET m == MaxIdOf(Tail(ts))
         IN  IF ts[1].id > m THEN ts[1].id ELSE m

\* main, from TodoList() to the end of load_tasks: the list and the counter
\* the command works on; when the load failed, the empty list.
Startup ==
    LET r == load_tasks(filename, file)
    IN  IF r.ok
        THEN [ failed  |-> FALSE,
               tasks   |-> r.tasks,
               next_id |-> IF r.tasks # <<>> THEN MaxIdOf(r.tasks) + 1 ELSE 1 ]
        ELSE [ failed  |-> TRUE,
               tasks   |-> <<>>,
               next_id |-> 1 ]

\* How a prompt of confirm_action ends: the user ran main with
\* --no-confirm and is not asked, or answers y, or answers n.
Consent == { "--no-confirm", "y", "n" }

\* What print_task shows of a task: its id, its status, the timer's mark.
TaskLine(task) ==
    <<"#", DigitChar[task.id + 1], IF task.done THEN "[x]" ELSE "[ ]">>
        \o (IF is_timer_running(task) THEN <<"timer">> ELSE <<>>)

RECURSIVE TaskLines(_)
TaskLines(ts) ==
    IF ts = <<>> THEN <<>> ELSE TaskLine(Head(ts)) \o TaskLines(Tail(ts))

\* A command begins: what every command records.
Command(name, task_id) ==
    /\ op' = name
    /\ arg' = task_id
    /\ was' = <<>>
    /\ UNCHANGED <<now, filename>>

\* main returns code without saving; ts and nid are the list it held.
Return(ts, nid, code, msg, e) ==
    /\ tasks' = ts
    /\ next_id' = nid
    /\ ret' = code
    /\ out' = msg
    /\ exc' = e
    /\ UNCHANGED <<file, backup>>

\* main reaches save_tasks and returns 0, or 1 when the save fails.
Save(ts, nid, msg) ==
    LET sv == save_tasks(ts, filename, file, backup)
    IN  /\ tasks' = ts
        /\ next_id' = nid
        /\ file' = sv.file
        /\ backup' = sv.backup
        /\ ret' = IF sv.ok THEN 0 ELSE 1
        /\ out' = IF sv.ok THEN msg ELSE msg \o <<"Error saving tasks">>
        /\ exc' = ""

\* The words main prints when the load failed.
LoadError(st) == IF st.failed THEN <<"Error loading tasks">> ELSE <<>>

\* main returns 1 for a task id that is not positive, before it loads.
InvalidId ==
    Return(<<>>, 1, 1, <<"Error: Task ID must be a positive integer">>, "")

\* main returns 1 when the load failed and the user does not continue.
Declined(st) == Return(st.tasks, st.next_id, 1, LoadError(st), "")

\* The ways a prompt can end when main reaches it; one way when it does not.
Answers(asked) == IF asked THEN Consent ELSE {"not asked"}

\* ------------------------------------------- the TodoList as a state machine

\* TodoList.__init__ in a program that uses no storage file.
Init ==
    /\ tasks = <<>>
    /\ next_id = 1
    /\ now = 0
    /\ op = "init"
    /\ arg = 0
    /\ ret = <<>>
    /\ exc = ""
    /\ was = <<>>
    /\ out = <<>>
    /\ filename = "none"
    /\ file = <<>>
    /\ backup = <<>>

\* A call of TodoList.add_task(title, due_date)
add_task(title, due_date) ==
    LET r == TodoList_add_task(tasks, next_id, title, due_date)
    IN  /\ next_id <= MaxId
        /\ op' = "add_task"
        /\ arg' = 0
        /\ was' = <<>>
        /\ tasks' = r.tasks
        /\ next_id' = r.next_id
        /\ ret' = r.result
        /\ exc' = IF r.ok THEN "" ELSE "ValueError"
        /\ UNCHANGED <<now, out, disk>>

\* A call of TodoList.mark_done(task_id)
mark_done(task_id) ==
    LET r == TodoList_mark_done(tasks, task_id, now)
    IN  /\ InRange(r.tasks)
        /\ op' = "mark_done"
        /\ arg' = task_id
        /\ was' = Found(tasks, task_id)
        /\ tasks' = r.tasks
        /\ ret' = r.result
        /\ exc' = ""
        /\ UNCHANGED <<next_id, now, out, disk>>

\* A call of TodoList.delete_task(task_id)
delete_task(task_id) ==
    LET r == TodoList_delete_task(tasks, task_id)
    IN  /\ op' = "delete_task"
        /\ arg' = task_id
        /\ was' = Found(tasks, task_id)
        /\ tasks' = r.tasks
        /\ ret' = r.result
        /\ exc' = ""
        /\ UNCHANGED <<next_id, now, out, disk>>

\* A call of TodoList.start_timer(task_id)
start_timer(task_id) ==
    LET r == TodoList_start_timer(tasks, task_id, now)
    IN  /\ op' = "start_timer"
        /\ arg' = task_id
        /\ was' = Found(tasks, task_id)
        /\ tasks' = r.tasks
        /\ ret' = r.result
        /\ exc' = ""
        /\ UNCHANGED <<next_id, now, out, disk>>

\* A call of TodoList.stop_timer(task_id)
stop_timer(task_id) ==
    LET r == TodoList_stop_timer(tasks, task_id, now)
    IN  /\ InRange(r.tasks)
        /\ op' = "stop_timer"
        /\ arg' = task_id
        /\ was' = Found(tasks, task_id)
        /\ tasks' = r.tasks
        /\ ret' = r.result
        /\ exc' = ""
        /\ UNCHANGED <<next_id, now, out, disk>>

\* A change of the clock is the last thing that happened.
ClockEvent ==
    /\ op' = "clock"
    /\ arg' = 0
    /\ ret' = <<>>
    /\ exc' = ""
    /\ was' = <<>>
    /\ out' = <<>>
    /\ UNCHANGED <<tasks, next_id, disk>>

\* The wall clock advances between two operations.
Tick ==
    /\ now < MaxTime
    /\ now' = now + 1
    /\ ClockEvent

\* The wall clock is set back between two operations (time.time() follows
\* the system clock, which an administrator or a time service may set back).
SetBack ==
    /\ \E t \in 0..(now - 1) : now' = t
    /\ ClockEvent

Next ==
    \/ \E title \in TitleInputs, due_date \in DueInputs : add_task(title, due_date)
    \/ \E task_id \in IdArgs : mark_done(task_id)
    \/ \E task_id \in IdArgs : delete_task(task_id)
    \/ \E task_id \in IdArgs : start_timer(task_id)
    \/ \E task_id \in IdArgs : stop_timer(task_id)
    \/ Tick
    \/ SetBack

Spec == Init /\ [][Next]_vars

\* ------------------------------------------------ the CLI as a state machine

\* What the user passes.
CliIdArgs == 0..MaxId
DueArgs ==
    { <<>>, <<"TOMORROW">>,
      <<" ", "2", "0", "2", "4", "-", "0", "1", "-", "0", "1", " ", "1", "2",
        ":", "0", "0">>,
      <<"x">> }
ListArgs ==
    { [all |-> FALSE, upcoming |-> FALSE, overdue |-> FALSE, days |-> 3],
      [all |-> TRUE,  upcoming |-> FALSE, overdue |-> FALSE, days |-> 3],
      [all |-> FALSE, upcoming |-> FALSE, overdue |-> TRUE,  days |-> 3],
      [all |-> FALSE, upcoming |-> TRUE,  overdue |-> TRUE,  days |-> 1],
      [all |-> FALSE, upcoming |-> TRUE,  overdue |-> FALSE, days |-> 0] }

\* No process has run yet; the storage file is absent or has zero bytes.
InitCLI ==
    /\ tasks = <<>>
    /\ next_id = 1
    /\ now = 0
    /\ op = "init"
    /\ arg = 0
    /\ ret = 0
    /\ exc = ""
    /\ was = <<>>
    /\ out = <<>>
    /\ filename \in {"json", "csv"}
    /\ file \in { <<>>, <<EmptyFile>> }
    /\ backup = <<>>

\* main for `add <title> [--due <text>]`, after the load.
add_command(title, due, st) ==
    LET parsed == parse_due_date(due, now)
        r      == TodoList_add_task(st.tasks, st.next_id, title,
                                    IF due # <<>> THEN <<parsed.value>> ELSE <<>>)
    IN  /\ st.next_id <= MaxId
        /\ IF due # <<>> /\ ~parsed.ok
           THEN Return(st.tasks, st.next_id, 1,
                       LoadError(st) \o <<"Error:">> \o parsed.message, "")
           ELSE IF ~r.ok
           THEN Return(st.tasks, st.next_id, 1, LoadError(st), "ValueError")
           ELSE Save(r.tasks, r.next_id,
                     LoadError(st) \o <<"Added task", "#", DigitChar[st.next_id + 1]>>)

cli_add(title, due) ==
    /\ Command("add", 0)
    /\ \E st \in {Startup} : \E c \in Answers(st.failed) :
          IF c = "n" THEN Declined(st) ELSE add_command(title, due, st)

\* main for `list [--all] [--upcoming] [--overdue] [--days <n>]`
list_command(args, st) ==
    LET shown == IF args.upcoming THEN get_upcoming_tasks(st.tasks, args.days, now)
                 ELSE IF args.overdue THEN get_overdue_tasks(st.tasks, now)
                 ELSE list_tasks(st.tasks, args.all)
        title == IF args.upcoming THEN "Upcoming Tasks"
                 ELSE IF args.overdue THEN "Overdue Tasks"
                 ELSE IF args.all THEN "All Tasks" ELSE "Active Tasks"
    IN  IF shown = <<>>
        THEN Return(st.tasks, st.next_id, 0,
                    LoadError(st) \o <<"No tasks found.">>, "")
        ELSE Save(st.tasks, st.next_id,
                  LoadError(st) \o <<title>> \o TaskLines(shown))

cli_list(args) ==
    /\ Command("list", 0)
    /\ \E st \in {Startup} : \E c \in Answers(st.failed) :
          IF c = "n" THEN Declined(st) ELSE list_command(args, st)

\* done_command that saves the list also when mark_done refused.
done_command_saves(task_id, st) ==
    LET r == TodoList_mark_done(st.tasks, task_id, now)
    IN  IF r.result = <<>>
        THEN Save(r.tasks, st.next_id,
                  LoadError(st) \o <<"not found or already completed">>)
        ELSE Save(r.tasks, st.next_id, LoadError(st) \o <<"Completed task">>)

\* main for `done <id>`
done_command(task_id, st) ==
    LET r == TodoList_mark_done(st.tasks, task_id, now)
    IN  IF r.result = <<>>
        THEN Return(r.tasks, st.next_id, 1,
                    LoadError(st) \o <<"not found or already completed">>, "")
        ELSE Save(r.tasks, st.next_id, LoadError(st) \o <<"Completed task">>)

cli_done(task_id) ==
    /\ Command("done", task_id)
    /\ IF task_id <= 0
       THEN InvalidId
       ELSE \E st \in {Startup} : \E c \in Answers(st.failed) :
               IF c = "n" THEN Declined(st) ELSE done_command(task_id, st)

\* main for `delete <id>`
delete_command(task_id, st) ==
    IF find_task(st.tasks, task_id) = 0
    THEN Return(st.tasks, st.next_id, 1, LoadError(st) \o <<"not found">>, "")
    ELSE \E c \in Answers(TRUE) :
            IF c = "n"
            THEN Return(st.tasks, st.next_id, 0, <<"Cancelled.">>, "")
            ELSE Save(TodoList_delete_task(st.tasks, task_id).tasks, st.next_id,
                      <<"Deleted task">>)

cli_delete(task_id) ==
    /\ Command("delete", task_id)
    /\ IF task_id <= 0
       THEN InvalidId
       ELSE \E st \in {Startup} : \E c \in Answers(st.failed) :
               IF c = "n" THEN Declined(st) ELSE delete_command(task_id, st)

\* main for `start <id>`
start_command(task_id, st) ==
    LET i == find_task(st.tasks, task_id)
        r == TodoList_start_timer(st.tasks, task_id, now)
    IN  IF i = 0
        THEN Return(st.tasks, st.next_id, 1, LoadError(st) \o <<"not found">>, "")
        ELSE IF st.tasks[i].done
        THEN Return(st.tasks, st.next_id, 1,
                    <<"Cannot start timer for completed task">>, "")
        ELSE Save(r.tasks, st.next_id,
                  IF r.result THEN <<"Started timer">>
                              ELSE <<"Timer already running">>)

cli_start(task_id) ==
    /\ Command("start", task_id)
    /\ IF task_id <= 0
       THEN InvalidId
       ELSE \E st \in {Startup} : \E c \in Answers(st.failed) :
               IF c = "n" THEN Declined(st) ELSE start_command(task_id, st)

\* main for `stop <id>`
stop_command(task_id, st) ==
    LET r == TodoList_stop_timer(st.tasks, task_id, now)
    IN  IF find_task(st.tasks, task_id) = 0
        THEN Return(st.tasks, st.next_id, 1, LoadError(st) \o <<"not found">>, "")
        ELSE Save(r.tasks, st.next_id,
                  IF r.result > 0
                  THEN <<"Stopped timer", "Session time", "Total time">>
                  ELSE <<"No timer running">>)

cli_stop(task_id) ==
    /\ Command("stop", task_id)
    /\ IF task_id <= 0
       THEN InvalidId
       ELSE \E st \in {Startup} : \E c \in Answers(st.failed) :
               IF c = "n" THEN Declined(st) ELSE stop_command(task_id, st)

\* main for `time [--summary]`
time_command(summary, st) ==
    LET Worked(task) == task.time_spent > 0
    IN  Save(st.tasks, st.next_id,
             LoadError(st) \o <<"Total time">>
                \o (IF summary THEN <<>>
                    ELSE TaskLines(SelectSeq(st.tasks, Worked))))

cli_time(summary) ==
    /\ Command("time", 0)
    /\ \E st \in {Startup} : \E c \in Answers(st.failed) :
          IF c = "n" THEN Declined(st) ELSE time_command(summary, st)

\* main for `remaining <id>`
remaining_command(task_id, st) ==
    LET i == find_task(st.tasks, task_id)
    IN  IF i = 0
        THEN Return(st.tasks, st.next_id, 1, LoadError(st) \o <<"not found">>, "")
        ELSE Save(st.tasks, st.next_id,
                  IF st.tasks[i].done THEN <<"is completed">>
                  ELSE IF st.tasks[i].due_date = <<>> THEN <<"has no deadline">>
                  ELSE <<"Due", "Status">>)

cli_remaining(task_id) ==
    /\ Command("remaining", task_id)
    /\ IF task_id <= 0
       THEN InvalidId
       ELSE \E st \in {Startup} : \E c \in Answers(st.failed) :
               IF c = "n" THEN Declined(st) ELSE remaining_command(task_id, st)

NextCLI ==
    \/ \E title \in TitleInputs, due \in DueArgs : cli_add(title, due)
    \/ \E args \in ListArgs : cli_list(args)
    \/ \E task_id \in CliIdArgs : cli_done(task_id)
    \/ \E task_id \in CliIdArgs : cli_delete(task_id)
    \/ \E task_id \in CliIdArgs : cli_start(task_id)
    \/ \E task_id \in CliIdArgs : cli_stop(task_id)
    \/ \E summary \in BOOLEAN : cli_time(summary)
    \/ \E task_id \in CliIdArgs : cli_remaining(task_id)
    \/ Tick
    \/ SetBack

SpecCLI == InitCLI /\ [][NextCLI]_vars

\* Either program: a client of TodoList without storage, or the CLI.
InitAny == Init \/ InitCLI

NextAny ==
    \/ filename = "none" /\ Next
    \/ filename # "none" /\ NextCLI

SpecAny == InitAny /\ [][NextAny]_vars

\* ------------------------------- the CLI on titles of more than one line

(* The user of the CLI gives titles that hold a line break (the shell      *)
(* passes `add $'a\rb'` as it is), and then reads and deletes.             *)

\* The titles this user gives.
LineTitles == { <<"a">>, <<"a", "\r", "b">>, <<"a", "\n", "b">> }

NextLines ==
    \/ \E title \in LineTitles : cli_add(title, <<>>)
    \/ \E args \in ListArgs : cli_list(args)
    \/ \E task_id \in CliIdArgs : cli_done(task_id)
    \/ \E task_id \in CliIdArgs : cli_delete(task_id)
    \/ \E summary \in BOOLEAN : cli_time(summary)
    \/ \E task_id \in CliIdArgs : cli_remaining(task_id)

SpecLines == InitCLI /\ [][NextLines]_vars

\* ------------------------------------------- storage as a state machine

(* A program that calls load_tasks and save_tasks on a file somebody else  *)
(* may have written.                                                       *)

\* The time_spent values a JSON object holds, besides holding none.
JsonSpent ==
    { JFloat(x) : x \in (-MaxSpent)..MaxSpent } \cup { JInt(-1), JStr(<<"1">>) }

\* Objects that do not decode: an id that is text, no title, a due date
\* that is no date.
BadJsonObjects ==
    { [title |-> JStr(<<"a">>), id |-> JStr(<<"x">>)],
      [id |-> JInt(1)],
      [title |-> JStr(<<"a">>), due_date |-> JStr(<<"x">>), id |-> JInt(1)] }

\* The objects of a JSON file: well-formed ones with each time_spent, ones
\* without the key, one whose title is a number.
JsonObjects ==
    { [id |-> JInt(i), title |-> JStr(<<"a">>), done |-> JBool(FALSE),
       due_date |-> JNull, time_spent |-> x] : i \in 1..MaxId, x \in JsonSpent }
    \cup { [id |-> JInt(i), title |-> JStr(<<"a">>)] : i \in 1..MaxId }
    \cup { [id |-> JInt(1), title |-> JInt(5)] }
    \cup BadJsonObjects

\* The time_spent cells of a CSV row.
CsvSpent ==
    { FloatText(x) : x \in (-MaxSpent)..MaxSpent } \cup { <<"-", "1">>, <<"x">> }

\* Rows that do not decode: an id that is no number, a blank title, a due
\* date that is no date.
BadCsvRows ==
    { [title |-> t, done |-> <<"false">>, due_date |-> due, id |-> i,
       time_spent |-> FloatText(0)] :
          <<i, t, due>> \in { << <<"x">>, <<"a">>, <<>> >>,
                              << <<"1">>, <<" ">>, <<>> >>,
                              << <<"1">>, <<"a">>, <<"x">> >> } }

\* The rows of a CSV file with the five columns, and of one whose header
\* has no time_spent column.
CsvRows ==
    { [id |-> IntText(i), title |-> <<"a">>, done |-> d,
       due_date |-> <<>>, time_spent |-> x] :
          i \in 1..MaxId, d \in { <<"True">>, <<"false">> }, x \in CsvSpent }
    \cup BadCsvRows

CsvShortRows ==
    { [id |-> IntText(i), title |-> <<"a">>, done |-> <<"false">>,
       due_date |-> <<>>] : i \in 1..MaxId }

\* The sequences of at most two elements of S.
UpToTwo(S) == { <<>> } \cup { <<x>> : x \in S } \cup { <<x, y>> : x \in S, y \in S }

\* The files found on disk.
StoredFiles ==
    { JsonFile(d) : d \in UpToTwo(JsonObjects) }
    \cup { CsvFile(r) : r \in UpToTwo(CsvRows) \cup UpToTwo(CsvShortRows) }
    \cup { EmptyFile }

InitStorage ==
    /\ tasks = <<>>
    /\ next_id = 1
    /\ now = 0
    /\ op = "init"
    /\ arg = 0
    /\ ret = <<>>
    /\ exc = ""
    /\ was = <<>>
    /\ out = <<>>
    /\ filename \in {"json", "csv", "txt"}
    /\ file \in { <<>> } \cup { <<f>> : f \in StoredFiles }
    /\ backup = <<>>

\* tasks = load_tasks(filename)
storage_load ==
    LET r == load_tasks(filename, file)
    IN  /\ op' = "load_tasks"
        /\ tasks' = IF r.ok THEN r.tasks ELSE tasks
        /\ ret' = IF r.ok THEN r.tasks ELSE <<>>
        /\ exc' = IF r.ok THEN "" ELSE r.error
        /\ UNCHANGED <<next_id, now, arg, was, out, disk>>

\* save_tasks(tasks, filename)
storage_save ==
    LET sv == save_tasks(tasks, filename, file, backup)
    IN  /\ op' = "save_tasks"
        /\ file' = sv.file
        /\ backup' = sv.backup
        /\ ret' = <<>>
        /\ exc' = IF sv.ok THEN "" ELSE "StorageError"
        /\ UNCHANGED <<tasks, next_id, now, arg, was, out, filename>>

NextStorage ==
    \/ storage_load
    \/ storage_save

SpecStorage == InitStorage /\ [][NextStorage]_vars

\* -------------------------------- saving tasks, then loading them

(* A program that holds the tasks of a TodoList, saves them to a path      *)
(* where no file is yet, and loads them again.                             *)

\* The tasks held under one id: titles of one line and of two, done or
\* not, with and without a due date, worked time and a running timer.
SavedTasks(i) ==
    { [ title |-> t, done |-> done, due_date |-> due, id |-> i,
        time_spent |-> spent, timer_start |-> timer ] :
        t \in { <<"a">>, <<"a", "\r", "b">> },
        done \in BOOLEAN,
        due \in { <<>> } \cup { <<d>> : d \in 0..MaxTime },
        spent \in 0..MaxSpent,
        timer \in { <<>>, <<0>> } }

\* The lists held: at most two tasks, in the order of their ids.
SavedLists ==
    { <<>> }
    \cup { <<x>> : x \in UNION { SavedTasks(i) : i \in 1..MaxId } }
    \cup UNION { { <<x, y>> : x \in SavedTasks(i), y \in SavedTasks(j) } :
                    <<i, j>> \in { p \in (1..MaxId) \X (1..MaxId) : p[1] < p[2] } }

InitRoundTrip ==
    /\ tasks \in SavedLists
    /\ \A i \in 1..Len(tasks) : tasks[i].done => tasks[i].timer_start = <<>>
    /\ next_id = MaxId + 1
    /\ now = 0
    /\ op = "init"
    /\ arg = 0
    /\ ret = <<>>
    /\ exc = ""
    /\ was = <<>>
    /\ out = <<>>
    /\ filename \in {"json", "csv"}
    /\ file = <<>>
    /\ backup = <<>>

SpecRoundTrip == InitRoundTrip /\ [][NextStorage]_vars

\* ------------------------------- saving tasks on a disk that can refuse

(* The program of the storage state machine on a disk that can refuse a     *)
(* rename, an open or a write (no permission, no space left).              *)

\* save_tasks(tasks, filename) raises StorageError at the step `at`, after
\* k rows.  os.replace is called only when the file exists; the file is
\* opened only under a supported extension.
storage_save_error(at, k) ==
    LET sv == save_tasks_error(tasks, filename, file, backup, at, k)
    IN  /\ at = "replace" => file # <<>>
        /\ at # "replace" => filename \in {"json", "csv"}
        /\ op' = "save_tasks"
        /\ file' = sv.file
        /\ backup' = sv.backup
        /\ ret' = <<>>
        /\ exc' = "StorageError"
        /\ UNCHANGED <<tasks, next_id, now, arg, was, out, filename>>

NextBackup ==
    \/ storage_load
    \/ storage_save
    \/ \E at \in FailurePoints : \E k \in 0..Len(tasks) : storage_save_error(at, k)

SpecBackup == InitStorage /\ [][NextBackup]_vars

\* ------------------------------------- the queries as a state machine

(* A client that builds a TodoList of tasks with and without due dates,    *)
(* completes and deletes some, and asks the queries.  The queries read     *)
(* only done and due_date, so this client starts no timer.                 *)

\* The due dates this client gives: none, or a reading of the clock.
QueryDues == { <<>> } \cup { <<d>> : d \in 0..MaxDue }

\* The days arguments this client gives.
QueryDays == { -1, 0, 1, 2 }

\* A query returns r for the argument a and changes nothing.
Query(name, a, r) ==
    /\ op' = name
    /\ arg' = a
    /\ ret' = r
    /\ exc' = ""
    /\ was' = <<>>
    /\ UNCHANGED <<tasks, next_id, now, out, disk>>

\* A call of TodoList.list_tasks(show_all)
call_list_tasks(show_all) ==
    Query("list_tasks", show_all, list_tasks(tasks, show_all))

\* A call of TodoList.get_upcoming_tasks(days)
call_get_upcoming_tasks(days) ==
    Query("get_upcoming_tasks", days, get_upcoming_tasks(tasks, days, now))

\* A call of TodoList.get_overdue_tasks()
call_get_overdue_tasks ==
    Query("get_overdue_tasks", 0, get_overdue_tasks(tasks, now))

NextQuery ==
    \/ \E title \in TitleInputs, due_date \in QueryDues : add_task(title, due_date)
    \/ \E task_id \in IdArgs : mark_done(task_id)
    \/ \E task_id \in IdArgs : delete_task(task_id)
    \/ \E show_all \in BOOLEAN : call_list_tasks(show_all)
    \/ \E days \in QueryDays : call_get_upcoming_tasks(days)
    \/ call_get_overdue_tasks
    \/ Tick
    \/ SetBack

SpecQuery == Init /\ [][NextQuery]_vars

\* ------------------------------------------- one Task and its readings

(* A client that holds one Task and reads its deadline and its time.  The  *)
(* clock counts seconds here and reads 0 at the call; a due date is the    *)
(* instant that many seconds after it, or before it when negative.         *)

\* The seconds component of the durations.
SecondsParts == { 0, 5, 59 }

\* The durations: every mix of days, hours, minutes and seconds in range.
Durations ==
    { d * SECONDS_PER_DAY + h * SECONDS_PER_HOUR + m * SECONDS_PER_MINUTE + x :
        d \in 0..MaxDays, h \in 0..MaxHours, m \in 0..MaxMinutes,
        x \in SecondsParts }

\* A task that has worked for a duration and is due, if it is, a duration
\* before or after the call.
InitFormat ==
    /\ \E worked \in Durations, until \in Durations, sign \in {-1, 1},
          done \in BOOLEAN, dated \in BOOLEAN :
          tasks = << [ TaskInit(1, <<"a">>, done,
                                IF dated THEN <<sign * until>> ELSE <<>>)
                       EXCEPT !.time_spent = IF dated THEN 0 ELSE worked ] >>
    /\ next_id = 2
    /\ now = 0
    /\ op = "init"
    /\ arg = 0
    /\ ret = <<>>
    /\ exc = ""
    /\ was = <<>>
    /\ out = <<>>
    /\ filename = "none"
    /\ file = <<>>
    /\ backup = <<>>

\* A call of Task.is_overdue()
call_is_overdue ==
    Query("is_overdue", 1, is_overdue(tasks[1], now))

\* A call of Task.remaining_time_seconds()
call_remaining_time_seconds ==
    Query("remaining_time_seconds", 1, remaining_time_seconds(tasks[1], now))

\* A call of Task.format_remaining_time()
call_format_remaining_time ==
    Query("format_remaining_time", 1, format_remaining_time(tasks[1], now))

\* A call of Task.format_time_spent()
call_format_time_spent ==
    Query("format_time_spent", 1, format_time_spent(tasks[1]))

NextFormat ==
    \/ call_is_overdue
    \/ call_remaining_time_seconds
    \/ call_format_remaining_time
    \/ call_format_time_spent

SpecFormat == InitFormat /\ [][NextFormat]_vars

\* ------------------------------------------- one Task and its records

(* A client that holds one Task, takes its record with to_dict, and builds *)
(* tasks from records with from_dict: the task's own record and records    *)
(* somebody else wrote.                                                    *)

\* The tasks held: any id, title, done flag, due date and time_spent the
\* TodoList operations and the loaders leave, with a timer running or not.
RecordTasks ==
    { [ id |-> i, title |-> t, done |-> done, due_date |-> due,
        time_spent |-> spent, timer_start |-> timer ] :
        i \in 1..MaxId,
        t \in { <<"a">>, <<"a", " ", "a">> },
        done \in BOOLEAN,
        due \in { <<>> } \cup { <<d>> : d \in 0..MaxTime },
        spent \in (-MaxSpent)..MaxSpent,
        timer \in { <<>> } \cup { <<d>> : d \in 0..MaxTime } }

\* What a record holds under 'id' and under 'title'.
IdValues ==
    { JInt(i) : i \in -1..MaxId }
    \cup { JStr(<<"1">>), JFloat(1), JNull, JBool(TRUE) }

TitleValues ==
    { JStr(t) : t \in TitleInputs } \cup { JInt(5), JNull, JBool(TRUE) }

\* The records given to from_dict: every id with every title, and records
\* without one of the two keys.
Records ==
    { [ id |-> i, title |-> t, done |-> JBool(FALSE), due_date |-> JNull,
        time_spent |-> JFloat(0) ] : i \in IdValues, t \in TitleValues }
    \cup { [ title |-> t, done |-> JBool(FALSE) ] : t \in TitleValues }
    \cup { [ id |-> i, done |-> JBool(FALSE) ] : i \in IdValues }

InitRecord ==
    /\ \E task \in RecordTasks :
          /\ task.done => task.timer_start = <<>>
          /\ tasks = <<task>>
    /\ next_id = MaxId + 1
    /\ now = 0
    /\ op = "init"
    /\ arg = 0
    /\ ret = <<>>
    /\ exc = ""
    /\ was = <<>>
    /\ out = <<>>
    /\ filename = "none"
    /\ file = <<>>
    /\ backup = <<>>

\* Task.from_dict(data) returns r, or raises.
FromDict(name, data, r) ==
    /\ op' = name
    /\ arg' = data
    /\ ret' = IF r.ok THEN <<r.task>> ELSE <<>>
    /\ exc' = IF r.ok THEN "" ELSE r.error
    /\ was' = <<>>
    /\ UNCHANGED <<tasks, next_id, now, out, disk>>

\* A call of task.to_dict()
call_to_dict ==
    Query("to_dict", 1, to_dict(tasks[1]))

\* A call of Task.from_dict(data)
call_from_dict(data) ==
    FromDict("from_dict", data, from_dict(data))

\* A call of Task.from_dict(task.to_dict())
call_round_trip ==
    FromDict("from_dict(to_dict)", to_dict(tasks[1]), from_dict(to_dict(tasks[1])))

NextRecord ==
    \/ call_to_dict
    \/ \E data \in Records : call_from_dict(data)
    \/ call_round_trip

SpecRecord == InitRecord /\ [][NextRecord]_vars

\* ------------------------------- building tasks as a state machine

(* A client that builds tasks: with the constructor on arguments of any    *)
(* type, and with from_dict on records that differ in time_spent only.     *)

\* A call of Task.from_dict on a record that is valid but perhaps for its
\* time_spent: a number of either kind.
call_from_dict_spent(done, kind, spent) ==
    call_from_dict([ title |-> JStr(<<" ", "a">>), done |-> JBool(done),
                     due_date |-> JNull, id |-> JInt(1),
                     time_spent |-> [t |-> kind, v |-> spent] ])

\* A call of Task.from_dict on a valid record without time_spent.
call_from_dict_unspent(done) ==
    call_from_dict([ title |-> JStr(<<"a">>), done |-> JBool(done),
                     id |-> JInt(1) ])

\* A call of Task(task_id, title, done)
call_Task(task_id, title, done) ==
    FromDict("Task", [title |-> title, done |-> done, id |-> task_id],
             Task_init(task_id, title, done, <<>>))

NextTask ==
    \/ \E task_id \in IdValues, title \in TitleValues, done \in BOOLEAN :
          call_Task(task_id, title, done)
    \/ \E done \in BOOLEAN, kind \in {"int", "float"},
          spent \in (-MaxSpent)..MaxSpent :
              call_from_dict_spent(done, kind, spent)
    \/ \E done \in BOOLEAN : call_from_dict_unspent(done)

SpecTask == Init /\ [][NextTask]_vars

\* ------------------------------- parsing due dates as a state machine

(* A client that holds a text somebody typed and calls parse_due_date on   *)
(* it.                                                                     *)

\* The numbers typed: a year, months and days in and out of range, one
\* digit or two, and a day padded with a blank.
DateParts ==
    { <<"2", "0", "2", "4">>, <<"1">>, <<"0", "2">>, <<"1", "3">>,
      <<"3", "0">>, <<"3", "2">>, <<" ", "5">> }

\* What follows the date: nothing, a time, a time with an hour out of range,
\* a time with seconds, a stray letter.
TimeParts ==
    { <<>>,
      <<" ", "1", "0", ":", "3", "0">>,
      <<" ", "2", "4", ":", "0", "0">>,
      <<" ", "1", "0", ":", "3", "0", ":", "5", "9">>,
      <<"x">> }

\* The texts typed: three numbers with a separator between them and what
\* follows; the keywords in any case; padded and other words; nothing.
DateTexts ==
    { a \o <<sep>> \o b \o <<sep>> \o c \o rest :
        a \in DateParts, b \in DateParts, c \in DateParts,
        sep \in {"-", "/", "."}, rest \in TimeParts }
    \cup { <<"today">>, <<"NOW">>, <<" ", "Tomorrow", "\t">>, <<"x">>,
           <<" ", "X">>, <<"x", " ">>, <<>> }

InitDate ==
    /\ tasks = <<>>
    /\ next_id = 1
    /\ now \in 0..MaxTime
    /\ op = "init"
    /\ arg \in DateTexts
    /\ ret = <<>>
    /\ exc = ""
    /\ was = <<>>
    /\ out = <<>>
    /\ filename = "none"
    /\ file = <<>>
    /\ backup = <<>>

\* A call of parse_due_date(arg): ret is the datetime returned, out the
\* message of the ValueError raised.
call_parse_due_date ==
    LET r == parse_due_date(arg, now)
    IN  /\ op' = "parse_due_date"
        /\ ret' = IF r.ok THEN <<r.value>> ELSE <<>>
        /\ exc' = IF r.ok THEN "" ELSE "ValueError"
        /\ out' = IF r.ok THEN <<>> ELSE r.message
        /\ UNCHANGED <<tasks, next_id, now, arg, was, disk>>

NextDate == call_parse_due_date

SpecDate == InitDate /\ [][NextDate]_vars

\* ------------------------------------------------------------ the claims

\* The task of the list with the id of the last operation's argument.
Current == Found(tasks, arg)

\* C1: after any sequence of TodoList operations no task is done with its
\* timer running.
C1_DoneHasNoTimer ==
    \A i \in 1..Len(tasks) : tasks[i].done => tasks[i].timer_start = <<>>

\* C1's case: mark_done has just completed a task whose timer was running.
C1_Witness ==
    /\ op = "mark_done"
    /\ ret # <<>>
    /\ was # <<>>
    /\ is_timer_running(was[1])
    /\ ret[1].done

\* C2: in every reachable state every task has time_spent >= 0, whatever
\* time_spent the loaded JSON or CSV file holds.
C2_TimeSpentNonNegative ==
    \A i \in 1..Len(tasks) : tasks[i].time_spent >= 0

\* C3: no step decreases the time_spent of a task that stays in the list.
C3_TimeSpentNeverDecreases ==
    [][\A i \in 1..Len(tasks) : \A j \in 1..Len(tasks') :
          tasks[i].id = tasks'[j].id
              => tasks'[j].time_spent >= tasks[i].time_spent]_vars

\* C4: start_timer returns true exactly when the task is not done and has no
\* timer running, and then timer_start is the current instant and nothing
\* else of the task changed; when it returns false the task is unchanged.
C4_StartTimer ==
    (op = "start_timer" /\ was # <<>>) =>
        /\ ret = (~was[1].done /\ was[1].timer_start = <<>>)
        /\ Current = IF ret
                     THEN <<[was[1] EXCEPT !.timer_start = <<now>>]>>
                     ELSE was

\* C4's case: a second start right after a start is refused.
C4_Witness ==
    /\ op = "start_timer"
    /\ was # <<>>
    /\ ~was[1].done
    /\ is_timer_running(was[1])
    /\ ret = FALSE

\* C5: stop_timer with no timer running returns 0 and leaves the task as
\* it was.
C5_StopIdle ==
    (op = "stop_timer" /\ was # <<>> /\ ~is_timer_running(was[1])) =>
        /\ ret = 0
        /\ Current = was

\* C5's case: a stop on a task that has worked time and no running timer,
\* as right after a successful stop.
C5_Witness ==
    /\ op = "stop_timer"
    /\ was # <<>>
    /\ ~is_timer_running(was[1])
    /\ was[1].time_spent > 0

\* C6: stop_timer with a timer running returns elapsed = now - timer_start,
\* which is not negative, adds it to time_spent and clears timer_start.
C6_StopRunning ==
    (op = "stop_timer" /\ was # <<>> /\ is_timer_running(was[1])) =>
        /\ ret = now - was[1].timer_start[1]
        /\ ret >= 0
        /\ Current = <<[was[1] EXCEPT !.time_spent = was[1].time_spent + ret,
                                      !.timer_start = <<>>]>>

\* C7: mark_done returns None exactly when the id is absent or the task is
\* already done, and then nothing changes.
C7_MarkDoneRefused ==
    [][op' = "mark_done" =>
          /\ (ret' = <<>>) <=>
                 (Found(tasks, arg') = <<>> \/ Found(tasks, arg')[1].done)
          /\ (ret' = <<>>) => (tasks' = tasks /\ next_id' = next_id)]_vars

\* C7's case: mark_done on a done task that has worked time, in a list of
\* two tasks.
C7_Witness ==
    /\ op = "mark_done"
    /\ ret = <<>>
    /\ was # <<>>
    /\ was[1].done
    /\ was[1].time_spent > 0
    /\ Len(tasks) = 2

\* C8: mark_done on a task that is not done returns it with done set; a
\* running timer is stopped and its session added to time_spent; without a
\* running timer time_spent is unchanged.
C8_MarkDone ==
    (op = "mark_done" /\ was # <<>> /\ ~was[1].done) =>
        /\ ret = Current
        /\ ret # <<>>
        /\ ret[1] = [was[1] EXCEPT
                        !.done = TRUE,
                        !.timer_start = <<>>,
                        !.time_spent =
                            IF is_timer_running(was[1])
                            THEN was[1].time_spent + (now - was[1].timer_start[1])
                            ELSE was[1].time_spent]

\* C8's case: mark_done on a task whose timer has run for some time.
C8_Witness ==
    /\ op = "mark_done"
    /\ was # <<>>
    /\ ~was[1].done
    /\ is_timer_running(was[1])
    /\ now > was[1].timer_start[1]

\* C9: add_task gives the new task the id next_id and increments next_id;
\* delete_task renumbers no task and leaves next_id alone; so every id in
\* the list is below next_id, which never decreases.
C9_IdsNeverReused ==
    [][/\ \A i \in 1..Len(tasks) : tasks[i].id < next_id
       /\ next_id' >= next_id
       /\ (op' = "add_task" /\ exc' = "") =>
              /\ ret'[1].id = next_id
              /\ next_id' = next_id + 1
              /\ tasks' = Append(tasks, ret'[1])
       /\ op' = "delete_task" =>
              /\ next_id' = next_id
              /\ \A j \in 1..Len(tasks') :
                     \E i \in 1..Len(tasks) : tasks'[j] = tasks[i]]_vars

\* C9's case: an add after the only task was deleted gets a fresh id.
C9_Witness ==
    /\ op = "add_task"
    /\ exc = ""
    /\ Len(tasks) = 1
    /\ ret[1].id = 2

\* Whether no two tasks of ts share an id.
UniqueIds(ts) ==
    \A i \in 1..Len(ts) : \A j \in 1..Len(ts) : ts[i].id = ts[j].id => i = j

\* C10: no two tasks of a collection share an id, after any sequence of
\* TodoList operations and after any sequence of CLI commands on a storage
\* file that was absent or empty at first; the same holds of the tasks the
\* storage file then holds.
C10_UniqueIds ==
    /\ UniqueIds(tasks)
    /\ load_tasks(filename, file).ok => UniqueIds(load_tasks(filename, file).tasks)

\* C10's case: the CLI loaded a stored list of one task, added a second
\* task under the recomputed id, and saved both.
C10_Witness ==
    /\ op = "add"
    /\ ret = 0
    /\ Len(tasks) = 2
    /\ backup # <<>>
    /\ load_tasks(filename, backup).ok
    /\ Len(load_tasks(filename, backup).tasks) = 1
    /\ load_tasks(filename, file).ok
    /\ load_tasks(filename, file).tasks = tasks

\* C11: get_upcoming_tasks returns its tasks by ascending due date,
\* whatever the order in which they were added.
C11_UpcomingSorted ==
    op = "get_upcoming_tasks" =>
        \A i \in 1..Len(ret) : \A j \in 1..Len(ret) :
            i < j => ret[i].due_date[1] <= ret[j].due_date[1]

\* Whether a task is in the window of get_upcoming_tasks(days) at the
\* current instant: not done, with a due date, now <= due_date <= now + days.
InWindow(task, days) ==
    /\ ~task.done
    /\ task.due_date # <<>>
    /\ now <= task.due_date[1]
    /\ task.due_date[1] <= now + days * TicksPerDay

\* C12: get_upcoming_tasks(days) holds exactly the tasks in the window,
\* each once, and is empty for days <= 0.
C12_UpcomingMembers ==
    op = "get_upcoming_tasks" =>
        IF arg <= 0
        THEN ret = <<>>
        ELSE /\ \A i \in 1..Len(tasks) :
                    InWindow(tasks[i], arg) <=> (\E j \in 1..Len(ret) : ret[j] = tasks[i])
             /\ \A j \in 1..Len(ret) : \E i \in 1..Len(tasks) : ret[j] = tasks[i]
             /\ Len(ret) = Cardinality({ i \in 1..Len(tasks) : InWindow(tasks[i], arg) })

\* C12's case: of two tasks, the one due exactly at the end of the window
\* is returned and the one that is done is not.
C12_Witness ==
    /\ op = "get_upcoming_tasks"
    /\ arg > 0
    /\ Len(tasks) = 2
    /\ Len(ret) = 1
    /\ ret[1].due_date[1] = now + arg * TicksPerDay
    /\ \E i \in 1..2 : tasks[i].done /\ tasks[i].due_date # <<>>

\* Whether rs is ts restricted to the positions K, in the order of ts.
KeptAt(rs, ts, K) ==
    /\ Len(rs) = Cardinality(K)
    /\ \E f \in [1..Len(rs) -> K] :
          /\ \A a \in 1..Len(rs) : \A b \in 1..Len(rs) : a < b => f[a] < f[b]
          /\ \A a \in 1..Len(rs) : rs[a] = ts[f[a]]

\* C13: list_tasks(true) is the whole sequence, list_tasks(false) the
\* tasks not done, get_overdue_tasks the overdue tasks, each in the order
\* of the collection.
C13_FiltersKeepOrder ==
    /\ op = "list_tasks" =>
          KeptAt(ret, tasks,
                 IF arg THEN 1..Len(tasks)
                        ELSE { i \in 1..Len(tasks) : ~tasks[i].done })
    /\ op = "get_overdue_tasks" =>
          KeptAt(ret, tasks, { i \in 1..Len(tasks) : is_overdue(tasks[i], now) })

\* C13's case: list_tasks(false) on a list whose first task is done and
\* whose second is not.
C13_Witness ==
    /\ op = "list_tasks"
    /\ arg = FALSE
    /\ Len(tasks) = 2
    /\ tasks[1].done
    /\ ~tasks[2].done
    /\ Len(ret) = 1

\* C14: is_overdue is true exactly when the task has a due date, is not
\* done, and the current instant is strictly after the due date.
C14_IsOverdue ==
    op = "is_overdue" =>
        ret = (/\ tasks[1].due_date # <<>>
               /\ ~tasks[1].done
               /\ now > tasks[1].due_date[1])

\* C14's case: a task that is not done, asked at its due instant.
C14_Witness ==
    /\ op = "is_overdue"
    /\ ~tasks[1].done
    /\ tasks[1].due_date = <<now>>
    /\ ret = FALSE

\* C15: remaining_time_seconds is None exactly for a task that is done or
\* has no due date, and otherwise due_date - now; is_overdue at the same
\* instant is true exactly when it is a number below 0.
C15_RemainingTime ==
    op = "remaining_time_seconds" =>
        /\ (ret = <<>>) <=> (tasks[1].done \/ tasks[1].due_date = <<>>)
        /\ ret # <<>> => ret[1] = tasks[1].due_date[1] - now
        /\ is_overdue(tasks[1], now) <=> (ret # <<>> /\ ret[1] < 0)

\* C15's case: a done task whose due date has passed has no remaining time.
C15_Witness ==
    /\ op = "remaining_time_seconds"
    /\ tasks[1].done
    /\ tasks[1].due_date # <<>>
    /\ tasks[1].due_date[1] < now
    /\ ret = <<>>

\* The components C16 describes for a duration: the non-zero ones of days,
\* hours, minutes and seconds in that order, without the minutes when
\* there are days.
NonZeroComponents(seconds) ==
    LET days    == seconds \div 86400
        hours   == (seconds % 86400) \div 3600
        minutes == (seconds % 3600) \div 60
        secs    == seconds % 60
    IN  (IF days > 0 THEN <<Component(days, "d")>> ELSE <<>>)
        \o (IF hours > 0 THEN <<Component(hours, "h")>> ELSE <<>>)
        \o (IF minutes > 0 /\ days = 0 THEN <<Component(minutes, "m")>> ELSE <<>>)
        \o (IF secs > 0 THEN <<Component(secs, "s")>> ELSE <<>>)

\* C16: a duration of at least 60 seconds is shown as exactly its non-zero
\* components, largest first, without the minutes when there are days.
C16_NonZeroComponents ==
    (op = "format_time_spent" /\ tasks[1].time_spent >= 60) =>
        ret = NonZeroComponents(tasks[1].time_spent)

\* C17: a duration with days shows no minutes; a duration below one day
\* with minutes shows them.
C17_MinutesAndDays ==
    op = "format_time_spent" =>
        LET seconds == tasks[1].time_spent
            minutes == (seconds % 3600) \div 60
        IN  /\ seconds >= 86400 =>
                  \A k \in 1..Len(ret) : ret[k].unit # "m"
            /\ (seconds < 86400 /\ minutes > 0) =>
                  \E k \in 1..Len(ret) : ret[k] = Component(minutes, "m")

\* C17's case: 90000 seconds are shown as 1d 1h.
C17_Witness ==
    /\ op = "format_time_spent"
    /\ tasks[1].time_spent = 90000
    /\ ret = <<Component(1, "d"), Component(1, "h")>>

\* C18: for a task that is not done and has a due date r seconds away,
\* r < 0 gives "Overdue by" with the duration -r, 0 <= r < 60 gives "Due
\* very soon", r >= 60 gives the duration r with "remaining"; a task with
\* no due date gives "No deadline".
C18_RemainingText ==
    op = "format_remaining_time" =>
        /\ tasks[1].due_date = <<>> => ret = Phrase("No deadline", <<>>)
        /\ (tasks[1].due_date # <<>> /\ ~tasks[1].done) =>
              LET r == tasks[1].due_date[1] - now
              IN  /\ r < 0 => ret = Phrase("Overdue by", format_duration(0 - r))
                  /\ (0 <= r /\ r < 60) => ret = Phrase("Due very soon", <<>>)
                  /\ r >= 60 => ret = Phrase("remaining", format_duration(r))

\* C18's case: exactly one minute remains.
C18_Witness ==
    /\ op = "format_remaining_time"
    /\ ~tasks[1].done
    /\ tasks[1].due_date = <<now + 60>>
    /\ ret.text = "remaining"

\* C19: for a task with time_spent >= 0, from_dict(to_dict(t)) has the id,
\* title, done, due_date and time_spent of t and no running timer.
C19_RoundTrip ==
    (op = "from_dict(to_dict)" /\ tasks[1].time_spent >= 0) =>
        /\ exc = ""
        /\ ret = <<[tasks[1] EXCEPT !.timer_start = <<>>]>>

\* C19's case: a task with a due date, worked time and a running timer.
C19_Witness ==
    /\ op = "from_dict(to_dict)"
    /\ tasks[1].due_date # <<>>
    /\ tasks[1].time_spent > 0
    /\ tasks[1].timer_start # <<>>
    /\ Len(tasks[1].title) > 1

\* Whether id or title is missing or malformed in a record: id absent, not
\* an integer or not positive; title absent, not a string or blank.
Malformed(data) ==
    \/ "id" \notin DOMAIN data
    \/ data["id"].t # "int"
    \/ data["id"].v <= 0
    \/ "title" \notin DOMAIN data
    \/ data["title"].t # "str"
    \/ strip(data["title"].v) = <<>>

\* C20: from_dict fails with ValueError for every record whose id or title
\* is missing or malformed, and builds no task from it.
C20_InvalidData ==
    (op = "from_dict" /\ Malformed(arg)) =>
        /\ exc = "ValueError"
        /\ ret = <<>>

\* Whether a record is valid but perhaps for its time_spent: a positive
\* integer id, a title that is not blank, no due date, and a time_spent
\* that is a number or is absent.
ValidButSpent(data) ==
    /\ {"id", "title"} \subseteq DOMAIN data
    /\ data["id"].t = "int"
    /\ data["id"].v > 0
    /\ data["title"].t = "str"
    /\ strip(data["title"].v) # <<>>
    /\ "due_date" \in DOMAIN data => data["due_date"].t = "null"
    /\ "time_spent" \in DOMAIN data => data["time_spent"].t \in {"int", "float"}

\* C21: from_dict on a record that is valid but for its time_spent builds a
\* task: with time_spent 0 when the record's is negative or absent, with
\* the record's time_spent when that is zero or more.
C21_ClampedTimeSpent ==
    (op = "from_dict" /\ ValidButSpent(arg)) =>
        /\ exc = ""
        /\ ret # <<>>
        /\ ret[1].time_spent =
              IF "time_spent" \notin DOMAIN arg THEN 0
              ELSE IF arg["time_spent"].v < 0 THEN 0
              ELSE arg["time_spent"].v

\* C21's case: a record with a negative time_spent gave a task.
C21_Witness ==
    /\ op = "from_dict"
    /\ ValidButSpent(arg)
    /\ "time_spent" \in DOMAIN arg
    /\ arg["time_spent"].v < 0
    /\ ret # <<>>
    /\ ret[1].time_spent = 0

\* Whether a value is a positive integer, as Python counts integers: True
\* is the integer 1.
PositiveInteger(val) ==
    \/ val.t = "int" /\ val.v > 0
    \/ val.t = "bool" /\ val.v

RECURSIVE TimeSpentAt(_, _)
TimeSpentAt(ts, K) ==
    IF K = {} THEN 0
    ELSE LET k == CHOOSE x \in K : \A y \in K : x >= y
         IN  ts[k].time_spent + TimeSpentAt(ts, K \ {k})

\* C24: after every step get_total_time_spent() is the sum of time_spent
\* over the tasks held, done or not, and 0 when none is held; deleting a
\* task takes its time_spent off the total; starting a timer and the
\* passing of time while a timer runs leave the total as it was.
C24_TotalTimeSpent ==
    [][/\ get_total_time_spent(tasks') = TimeSpentAt(tasks', 1..Len(tasks'))
       /\ tasks' = <<>> => get_total_time_spent(tasks') = 0
       /\ (op' = "delete_task" /\ ret' # <<>>) =>
              get_total_time_spent(tasks') =
                  get_total_time_spent(tasks) - ret'[1].time_spent
       /\ op' \in {"start_timer", "clock"} =>
              get_total_time_spent(tasks') = get_total_time_spent(tasks)]_vars

\* C24's case: a task with worked time was deleted while another task's
\* timer has been running for a while.
C24_Witness ==
    /\ op = "delete_task"
    /\ ret # <<>>
    /\ ret[1].time_spent > 0
    /\ tasks # <<>>
    /\ tasks[1].timer_start # <<>>
    /\ now > tasks[1].timer_start[1]
    /\ get_total_time_spent(tasks) = 0

\* The fields a text holds when it is written as a format is: four digits
\* for %Y, one or two for every other specifier, the characters of the
\* format between them, one blank before the time and nothing more; <<>>
\* otherwise.
RECURSIVE Written(_, _, _)
Written(s, fmt, fields) ==
    IF fmt = <<>>
    THEN (IF s = <<>> THEN <<fields>> ELSE <<>>)
    ELSE IF Head(fmt) \in Specifiers
    THEN LET ds == DigitRun(s)
         IN  IF Len(ds) \in (IF Head(fmt) = "%Y" THEN {4} ELSE {1, 2})
             THEN Written(SubSeq(s, Len(ds) + 1, Len(s)), Tail(fmt),
                          [fields EXCEPT ![Head(fmt)] = Number(ds)])
             ELSE <<>>
    ELSE IF s # <<>> /\ Head(s) = Head(fmt)
    THEN Written(Tail(s), Tail(fmt), fields)
    ELSE <<>>

\* Whether a text, trimmed, is a date of the calendar written as one of the
\* seven formats is.
WellFormed(text) ==
    \E k \in 1..Len(Formats) :
        LET r == Written(strip(lower(text)), Formats[k],
                         [x \in Specifiers |-> IF x \in {"%m", "%d"} THEN 1 ELSE 0])
        IN  /\ Len(r) = 1
            /\ r[1]["%Y"] >= 1
            /\ r[1]["%m"] \in 1..12
            /\ r[1]["%d"] \in 1..DaysInMonth(r[1]["%Y"], r[1]["%m"])
            /\ r[1]["%H"] \in 0..23
            /\ r[1]["%M"] \in 0..59
            /\ r[1]["%S"] \in 0..59

\* Whether a text, trimmed and in lower case, is a relative keyword.
Keyword(text) ==
    strip(lower(text)) \in { <<"today">>, <<"now">>, <<"tomorrow">> }

\* C25: parse_due_date raises ValueError, and returns no date, for every
\* text that is neither a keyword nor a date of the calendar written as one
\* of the seven formats is.
C25_RejectsOthers ==
    (op = "parse_due_date" /\ ~Keyword(arg) /\ ~WellFormed(arg)) =>
        /\ exc = "ValueError"
        /\ ret = <<>>

\* Whether a text occurs in a message, character by character.
Echoes(message, text) ==
    \E i \in 0..(Len(message) - Len(text)) :
        SubSeq(message, i + 1, i + Len(text)) = text

\* C26: the message of the ValueError parse_due_date raises holds the text
\* it was given, with its letter case and the blanks around it.
C26_EchoesText ==
    (op = "parse_due_date" /\ exc = "ValueError") => Echoes(out, arg)

\* Whether some record of a file of the format its name announces does not
\* decode.
Undecodable(name, content) ==
    \/ /\ name = "json"
       /\ content.fmt = "json"
       /\ \E i \in 1..Len(content.data) : ~from_dict(content.data[i]).ok
    \/ /\ name = "csv"
       /\ content.fmt = "csv"
       /\ \E i \in 1..Len(content.rows) :
             ~csv_row_task(ReadRow(content.rows[i])).ok

\* C27: load_tasks on a JSON or CSV file with a record that does not decode
\* raises StorageError and returns no task, the records that decode
\* included.
C27_AllOrNothing ==
    (op = "load_tasks" /\ file # <<>> /\ Undecodable(filename, file[1])) =>
        /\ exc = "StorageError"
        /\ ret = <<>>

\* C27's case: a file whose first record decodes and whose second does not.
C27_Witness ==
    /\ op = "load_tasks"
    /\ file # <<>>
    /\ Undecodable(filename, file[1])
    /\ \/ /\ filename = "json"
          /\ Len(file[1].data) = 2
          /\ from_dict(file[1].data[1]).ok
       \/ /\ filename = "csv"
          /\ Len(file[1].rows) = 2
          /\ csv_row_task(ReadRow(file[1].rows[1])).ok
    /\ exc = "StorageError"

\* C29: load_tasks and save_tasks raise StorageError on a path whose
\* extension is neither .json nor .csv, with or without a file there.
C29_UnsupportedFormat ==
    (op \in {"load_tasks", "save_tasks"} /\ filename \notin {"json", "csv"}) =>
        exc = "StorageError"

\* C28: load_tasks right after save_tasks of tasks whose time_spent is zero
\* or more, on a .json or a .csv path, returns as many tasks in the same
\* order, each with the id, title, done, due_date and time_spent of the
\* task saved and with no running timer.
C28_StorageRoundTrip ==
    [][(/\ op = "save_tasks"
        /\ exc = ""
        /\ op' = "load_tasks"
        /\ \A i \in 1..Len(tasks) : tasks[i].time_spent >= 0) =>
           /\ exc' = ""
           /\ ret' = [i \in 1..Len(tasks) |->
                         [tasks[i] EXCEPT !.timer_start = <<>>]]]_vars

\* C30: while the process that ran `start <id>` left the task's timer
\* running, the next process on the same storage file finds it running:
\* `list` shows the active tasks with the timer mark on one of them, and
\* `stop <id>`, once the clock has moved on, prints "Stopped timer" with the
\* session time and the total time and returns 0.
C30_TimerSurvives ==
    [][\A i \in 1..Len(tasks) :
          is_timer_running(tasks[i]) =>
             /\ (op' = "list" /\ ret' = 0 /\ out' # <<>>
                    /\ Head(out') = "Active Tasks") =>
                   \E k \in 1..Len(out') : out'[k] = "timer"
             /\ (op' = "stop" /\ arg' = tasks[i].id
                    /\ now > tasks[i].timer_start[1]) =>
                   /\ ret' = 0
                   /\ out' = <<"Stopped timer", "Session time", "Total time">>]_vars

\* C31: `stop <id>` on a task the storage file holds, whose timer is not
\* running, prints "No timer running" and returns 1.
C31_StopNotRunning ==
    [][(/\ op' = "stop"
        /\ ~Startup.failed
        /\ find_task(Startup.tasks, arg') # 0
        /\ ~is_timer_running(Startup.tasks[find_task(Startup.tasks, arg')])) =>
           /\ out' = <<"No timer running">>
           /\ ret' = 1]_vars

\* The position in the stored list of the task with this id, 0 if none.
StoredAt(task_id) == find_task(Startup.tasks, task_id)

\* C32: a command that is rejected returns 1 and does not save, so the
\* storage file and its backup are as they were: a task id that is not
\* positive; done, delete, start, stop or remaining with an id no stored
\* task has; done or start on a stored task that is done; add with a due
\* date that does not parse.
C32_RejectedCommands ==
    [][(\/ /\ op' \in {"done", "delete", "start", "stop", "remaining"}
           /\ \/ arg' <= 0
              \/ StoredAt(arg') = 0
              \/ /\ op' \in {"done", "start"}
                 /\ Startup.tasks[StoredAt(arg')].done
        \/ /\ op' = "add"
           /\ \E due \in DueArgs :
                 /\ due # <<>>
                 /\ ~parse_due_date(due, now).ok
                 /\ \E title \in TitleInputs : cli_add(title, due)) =>
           /\ ret' = 1
           /\ file' = file
           /\ backup' = backup]_vars

\* C32's case: `done` was refused for a stored task that is done, and the
\* file that holds it is still there next to an older backup.
C32_Witness ==
    /\ op = "done"
    /\ ret = 1
    /\ arg > 0
    /\ StoredAt(arg) # 0
    /\ Startup.tasks[StoredAt(arg)].done
    /\ backup # <<>>
    /\ backup # file

\* C33: save_tasks on a path where a file exists does not lose what that
\* file held: after a save that succeeded it is the backup; after a save
\* that raised StorageError it is still the file or it is the backup.
C33_BackupKeepsContents ==
    [][(op' = "save_tasks" /\ file # <<>>) =>
           IF exc' = ""
           THEN backup' = file
           ELSE file' = file \/ backup' = file]_vars

\* C33's case: the write failed after the loaded file had been renamed, so
\* the path holds a file of zero bytes and the backup holds the tasks.
C33_Witness ==
    /\ op = "save_tasks"
    /\ exc = "StorageError"
    /\ filename \in {"json", "csv"}
    /\ file = <<EmptyFile>>
    /\ tasks # <<>>
    /\ backup # <<>>
    /\ load_tasks(filename, backup).ok
    /\ load_tasks(filename, backup).tasks = tasks

\* C34: over successive commands on one storage file, a task that is added
\* gets an id greater than every id given before; so an `add` that follows
\* a `delete` gives the new task an id greater than the deleted task's.
C34_FreshIdsAcrossRuns ==
    [][(/\ op = "delete"
        /\ ret = 0
        /\ out = <<"Deleted task">>
        /\ op' = "add"
        /\ ret' = 0) =>
           tasks'[Len(tasks')].id > arg]_vars

\* C35: start_timer(id), stop_timer(id) and mark_done(id) change at most
\* the task with that id: the list keeps its length, its order and every
\* other task as it was, and next_id stays; with an id no task has the list
\* is unchanged and the results are False, 0 and None.
C35_ByIdFrame ==
    [][op' \in {"start_timer", "stop_timer", "mark_done"} =>
          /\ next_id' = next_id
          /\ Len(tasks') = Len(tasks)
          /\ \A i \in 1..Len(tasks) :
                /\ tasks'[i].id = tasks[i].id
                /\ tasks'[i].title = tasks[i].title
                /\ tasks'[i].due_date = tasks[i].due_date
                /\ tasks[i].id # arg' => tasks'[i] = tasks[i]
          /\ find_task(tasks, arg') = 0 =>
                /\ tasks' = tasks
                /\ op' = "start_timer" => ret' = FALSE
                /\ op' = "stop_timer" => ret' = 0
                /\ op' = "mark_done" => ret' = <<>>]_vars

\* C35's case: a running timer was stopped while another task's timer
\* runs on.
C35_Witness ==
    /\ op = "stop_timer"
    /\ was # <<>>
    /\ is_timer_running(was[1])
    /\ \E i \in 1..Len(tasks) :
          /\ tasks[i].id # arg
          /\ is_timer_running(tasks[i])

\* C36: add_task with a title that is empty or blank raises ValueError and
\* leaves the list and next_id as they were; the add that succeeds next
\* gives its task the id next_id held before the failed call.
C36_BlankTitleRefused ==
    [][/\ (\E title \in TitleInputs, due_date \in DueInputs :
              /\ strip(title) = <<>>
              /\ add_task(title, due_date)) =>
             /\ exc' = "ValueError"
             /\ tasks' = tasks
             /\ next_id' = next_id
       /\ (/\ op = "add_task"
           /\ exc = "ValueError"
           /\ op' = "add_task"
           /\ exc' = "") =>
             /\ ret'[1].id = next_id
             /\ tasks' = Append(tasks, ret'[1])]_vars

\* C36's case: after a task had been added, an add with a blank title was
\* refused; the list still holds the one task and next_id is still 2.
C36_Witness ==
    /\ op = "add_task"
    /\ exc = "ValueError"
    /\ Len(tasks) = 1
    /\ next_id = 2

\* C37: completion is permanent: the task mark_done returns is done with no
\* running timer, and a task that is done has no running timer and, for as
\* long as the list holds a task with its id, that task is done with the
\* same time_spent and no running timer after every operation.
C37_DoneIsFrozen ==
    [][/\ (op' = "mark_done" /\ ret' # <<>>) =>
             /\ ret'[1].done
             /\ ~is_timer_running(ret'[1])
             /\ \E j \in 1..Len(tasks') : tasks'[j] = ret'[1]
       /\ \A i \in 1..Len(tasks) :
             tasks[i].done =>
                /\ ~is_timer_running(tasks[i])
                /\ \A j \in 1..Len(tasks') :
                      tasks'[j].id = tasks[i].id =>
                         /\ tasks'[j].done
                         /\ ~is_timer_running(tasks'[j])
                         /\ tasks'[j].time_spent = tasks[i].time_spent]_vars

\* C37's case: start_timer was refused for a task that was completed with
\* time on it.
C37_Witness ==
    /\ op = "start_timer"
    /\ ret = FALSE
    /\ was # <<>>
    /\ was[1].done
    /\ was[1].time_spent > 0

\* Whether task is an element of the sequence ts.
Member(task, ts) == \E k \in 1..Len(ts) : ts[k] = task

\* C38: at one reading of the clock and for any days, no task is both in
\* get_upcoming_tasks(days) and in get_overdue_tasks(), and a task that is
\* done or has no due date is in neither.
C38_UpcomingOrOverdue ==
    \A days \in QueryDays : \A i \in 1..Len(tasks) :
        LET upcoming == Member(tasks[i], get_upcoming_tasks(tasks, days, now))
            overdue  == Member(tasks[i], get_overdue_tasks(tasks, now))
        IN  /\ ~(upcoming /\ overdue)
            /\ (tasks[i].done \/ tasks[i].due_date = <<>>) =>
                   ~upcoming /\ ~overdue

\* C38's case: one open task is due at this very reading and is upcoming,
\* another open task was due before and is overdue.
C38_Witness ==
    /\ \E i \in 1..Len(tasks) :
          /\ ~tasks[i].done
          /\ tasks[i].due_date = <<now>>
          /\ Member(tasks[i], get_upcoming_tasks(tasks, 1, now))
    /\ \E i \in 1..Len(tasks) :
          /\ ~tasks[i].done
          /\ Member(tasks[i], get_overdue_tasks(tasks, now))

\* The tasks a storage file holds, record by record as they are written in
\* it: none when the file is absent or has zero bytes.
Held(name, f) ==
    IF f = <<>> \/ f[1].fmt = "empty"
    THEN <<>>
    ELSE IF name = "csv"
    THEN [i \in 1..Len(f[1].rows) |-> csv_row_task(f[1].rows[i]).task]
    ELSE [i \in 1..Len(f[1].data) |-> from_dict(f[1].data[i]).task]

\* C39: `list` in every variant, `time`, `remaining` and a `delete` the
\* user declines leave in the storage file the same tasks in the same
\* order, each with the id, title, done, due_date and time_spent it had.
C39_ReadOnlyCommands ==
    [][(\/ op' \in {"list", "time", "remaining"}
        \/ op' = "delete" /\ out' = <<"Cancelled.">>) =>
           Held(filename, file') = Held(filename, file)]_vars

====
